---- MODULE Spec2Model ----
(***************************************************************************)
(* Tile-graph construction and entity movement of arrows-not-found.        *)
(*                                                                         *)
(* JavaScript numbers are IEEE-754 binary64 values.  The accumulator of    *)
(* the move tick, the axis deltas and the pixel position are all computed  *)
(* in that arithmetic, and 1/60 is not representable, so the model carries *)
(* the numbers as binary64 values (sign, 53-bit significand, exponent) and *)
(* rounds every operation to nearest, ties to even, as the engine does.    *)
(***************************************************************************)
EXTENDS Integers, Sequences, FiniteSets, TLC

(***************************************************************************)
(* Unsigned big integers: little-endian sequences of limbs in base 2^14.   *)
(***************************************************************************)
Base == 128 * 128
LimbBits == 7 + 7

RECURSIVE Pow2(_)
Pow2(k) == IF k = 0 THEN 1 ELSE 2 * Pow2(k - 1)

RECURSIVE Zeros(_)
Zeros(n) == IF n <= 0 THEN << >> ELSE <<0>> \o Zeros(n - 1)

RECURSIVE Trim(_)
Trim(a) == IF Len(a) = 0 THEN a
           ELSE IF a[Len(a)] = 0 THEN Trim(SubSeq(a, 1, Len(a) - 1)) ELSE a

BigIsZero(a) == Len(Trim(a)) = 0

Limb(a, i) == IF i <= Len(a) THEN a[i] ELSE 0

RECURSIVE AddFrom(_, _, _, _)
AddFrom(a, b, i, carry) ==
  IF i > Len(a) /\ i > Len(b)
  THEN IF carry = 0 THEN << >> ELSE <<carry>>
  ELSE LET s == Limb(a, i) + Limb(b, i) + carry
       IN  <<s % Base>> \o AddFrom(a, b, i + 1, s \div Base)

BigAdd(a, b) == Trim(AddFrom(a, b, 1, 0))

\* a - b for a >= b
RECURSIVE SubFrom(_, _, _, _)
SubFrom(a, b, i, borrow) ==
  IF i > Len(a) THEN << >>
  ELSE LET d == Limb(a, i) - Limb(b, i) - borrow
       IN  IF d < 0 THEN <<d + Base>> \o SubFrom(a, b, i + 1, 1)
                    ELSE <<d>> \o SubFrom(a, b, i + 1, 0)

BigSub(a, b) == Trim(SubFrom(a, b, 1, 0))

\* -1, 0, 1 as a < b, a = b, a > b
RECURSIVE CmpFrom(_, _, _)
CmpFrom(a, b, i) ==
  IF i = 0 THEN 0
  ELSE IF Limb(a, i) < Limb(b, i) THEN -1
  ELSE IF Limb(a, i) > Limb(b, i) THEN 1
  ELSE CmpFrom(a, b, i - 1)

BigCmp(a, b) == CmpFrom(a, b, IF Len(a) > Len(b) THEN Len(a) ELSE Len(b))

RECURSIVE MulSmallFrom(_, _, _, _)
MulSmallFrom(a, c, i, carry) ==
  IF i > Len(a)
  THEN IF carry = 0 THEN << >> ELSE <<carry>>
  ELSE LET p == a[i] * c + carry
       IN  <<p % Base>> \o MulSmallFrom(a, c, i + 1, p \div Base)

\* a * c for 0 <= c < Base
BigMulSmall(a, c) == Trim(MulSmallFrom(a, c, 1, 0))

RECURSIVE MulFrom(_, _, _)
MulFrom(a, b, j) ==
  IF j > Len(b) THEN << >>
  ELSE BigAdd(Zeros(j - 1) \o BigMulSmall(a, b[j]), MulFrom(a, b, j + 1))

BigMul(a, b) == MulFrom(a, b, 1)

\* quotient and remainder of a by 0 < c < Base, from the top limb down
RECURSIVE DivSmallFrom(_, _, _, _)
DivSmallFrom(a, c, i, rem) ==
  IF i = 0 THEN [q |-> << >>, r |-> rem]
  ELSE LET cur == rem * Base + a[i]
           rest == DivSmallFrom(a, c, i - 1, cur % c)
       IN  [q |-> rest.q \o <<cur \div c>>, r |-> rest.r]

TrimQuotient(d) == [q |-> Trim(d.q), r |-> d.r]

BigDivSmall(a, c) == TrimQuotient(DivSmallFrom(a, c, Len(a), 0))

RECURSIVE SmallBitLen(_)
SmallBitLen(n) == IF n = 0 THEN 0 ELSE 1 + SmallBitLen(n \div 2)

\* the bit length of a big integer without leading zero limbs
TrimmedBitLen(t) ==
  IF Len(t) = 0 THEN 0 ELSE LimbBits * (Len(t) - 1) + SmallBitLen(t[Len(t)])

BigBitLen(a) == TrimmedBitLen(Trim(a))

BigShl(a, k) ==
  Trim(Zeros(k \div LimbBits) \o BigMulSmall(a, Pow2(k % LimbBits)))

\* floor(a / 2^k)
BigShr(a, k) ==
  LET q == k \div LimbBits
  IN  IF q >= Len(a) THEN << >>
      ELSE BigDivSmall(SubSeq(a, q + 1, Len(a)), Pow2(k % LimbBits)).q

\* bit k (from 0) of a
BigBit(a, k) == (Limb(a, k \div LimbBits + 1) \div Pow2(k % LimbBits)) % 2

\* some bit below bit k of a is set
BigLowBits(a, k) ==
  LET q == k \div LimbBits
  IN  \/ \E i \in 1..q : Limb(a, i) # 0
      \/ Limb(a, q + 1) % Pow2(k % LimbBits) # 0

BigFromInt(n) == IF n = 0 THEN << >> ELSE
                 IF n < Base THEN <<n>> ELSE Trim(<<n % Base, (n \div Base) % Base, n \div (Base * Base)>>)

\* value of a big integer known to fit a machine integer
RECURSIVE BigToInt(_)
BigToInt(a) == IF Len(a) = 0 THEN 0 ELSE a[1] + Base * BigToInt(Tail(a))

(***************************************************************************)
(* binary64: [s, m, e] stands for s * m * 2^e with s in {1, -1} and m a    *)
(* big integer of exactly 53 bits, or Zero.  The exponent range of the     *)
(* format is never approached by the values of this program (all lie       *)
(* between 2^-120 and 2^10 in magnitude), so subnormals and overflow are   *)
(* not represented.  No operation of the modelled code tells -0 from +0    *)
(* (there is no division by a zero), so both are Zero.                     *)
(***************************************************************************)
MantBits == 52 + 1
Zero == [s |-> 1, m |-> << >>, e |-> 0]

IsZero(f) == Len(f.m) = 0

\* the significand r, of 53 bits or (after a carry out of the rounding) 54
Renormalize(s, r, E) ==
  IF BigBitLen(r) > MantBits
  THEN [s |-> s, m |-> BigShr(r, 1), e |-> E + 1]
  ELSE [s |-> s, m |-> r, e |-> E]

\* M cut by its k low bits to q: round up iff the bits cut are more than half
\* a unit of q, or exactly half and q is odd
RoundUp(M, k, q, sticky) ==
  /\ BigBit(M, k - 1) = 1
  /\ (sticky \/ BigLowBits(M, k - 1) \/ BigBit(q, 0) = 1)

RoundCut(s, M, E, sticky, k, q) ==
  Renormalize(s, IF RoundUp(M, k, q, sticky) THEN BigAdd(q, <<1>>) ELSE q, E + k)

\* M has bl bits
RoundBits(s, M, E, sticky, bl) ==
  IF bl = 0 THEN Zero
  ELSE IF bl <= MantBits
  THEN [s |-> s, m |-> BigShl(M, MantBits - bl), e |-> E - (MantBits - bl)]
  ELSE RoundCut(s, M, E, sticky, bl - MantBits, BigShr(M, bl - MantBits))

\* the binary64 nearest to s * M * 2^E, ties to even; sticky says that the
\* exact value lies strictly above M * 2^E in magnitude (by less than 2^E)
RoundTo(s, M, E, sticky) == RoundBits(s, M, E, sticky, BigBitLen(M))

FromInt(n) ==
  RoundTo(IF n < 0 THEN -1 ELSE 1, BigFromInt(IF n < 0 THEN -n ELSE n), 0, FALSE)

Neg(f) == IF IsZero(f) THEN f ELSE [f EXCEPT !.s = -f.s]

\* sa * A * 2^e + sb * B * 2^e for sa # sb, where c compares A with B
Difference(sa, A, sb, B, e, c) ==
  RoundTo(IF c > 0 THEN sa ELSE sb,
          IF c > 0 THEN BigSub(A, B) ELSE BigSub(B, A), e, FALSE)

\* sa * A * 2^e + sb * B * 2^e
AddAligned(sa, A, sb, B, e) ==
  IF sa = sb THEN RoundTo(sa, BigAdd(A, B), e, FALSE)
  ELSE Difference(sa, A, sb, B, e, BigCmp(A, B))

\* a + b for a, b other than 0, e the lesser of their exponents
AddAt(a, b, e) ==
  AddAligned(a.s, BigShl(a.m, a.e - e), b.s, BigShl(b.m, b.e - e), e)

\* a + b
FAdd(a, b) ==
  IF IsZero(a) THEN b ELSE IF IsZero(b) THEN a
  ELSE AddAt(a, b, IF a.e < b.e THEN a.e ELSE b.e)

FSub(a, b) == FAdd(a, Neg(b))

\* a * b
FMul(a, b) ==
  IF IsZero(a) \/ IsZero(b) THEN Zero
  ELSE RoundTo(a.s * b.s, BigMul(a.m, b.m), a.e + b.e, FALSE)

\* s * (d.q + a fraction that is 0 iff d.r = 0) * 2^E
RoundQuotient(s, d, E) == RoundTo(s, d.q, E, d.r # 0)

\* p / q for integers p >= 0 and 0 < q < Base
FDivInt(p, q) == RoundQuotient(1, BigDivSmall(BigShl(BigFromInt(p), 70), q), -70)

\* -1, 0, 1 as f < 0, f = 0, f > 0
Sign(f) == IF IsZero(f) THEN 0 ELSE f.s

\* -1, 0, 1 as a < b, a = b, a > b
FCmp(a, b) == Sign(FSub(a, b))

FMax(a, b) == IF FCmp(a, b) >= 0 THEN a ELSE b
FMin(a, b) == IF FCmp(a, b) <= 0 THEN a ELSE b

\* f / c for an integer 0 < c < Base
FDivSmall(f, c) ==
  IF IsZero(f) THEN Zero
  ELSE RoundQuotient(f.s, BigDivSmall(BigShl(f.m, 70), c), f.e - 70)

\* the decimal literal 0.c1 c2 ... cn, its digits written in groups of four
\* after a leading group of `lead` digits (lead in 1..4)
RECURSIVE GroupsToBig(_)
GroupsToBig(gs) ==
  IF Len(gs) = 0 THEN << >>
  ELSE BigAdd(BigMulSmall(GroupsToBig(SubSeq(gs, 1, Len(gs) - 1)), 10000),
              BigFromInt(gs[Len(gs)]))

\* the quotient x of d.q, with the remainders of both divisions
DivStep(d, x) == [q |-> x.q, r |-> IF d.r # 0 \/ x.r # 0 THEN 1 ELSE 0]

\* floor(q / c^n), r # 0 iff the division left a remainder
RECURSIVE DivPow(_, _, _)
DivPow(d, c, n) ==
  IF n = 0 THEN d ELSE DivPow(DivStep(d, BigDivSmall(d.q, c)), c, n - 1)

FromDecimal(gs, lead) ==
  RoundQuotient(1,
    DivPow(DivPow([q |-> BigShl(GroupsToBig(gs), 126), r |-> 0], 10000, Len(gs) - 1),
           10, lead),
    -126)

\* ToInt32 (the operand of ^ 0): the integer part, toward zero
Trunc(f) ==
  IF IsZero(f) THEN 0
  ELSE IF f.e >= 0 THEN f.s * BigToInt(BigShl(f.m, f.e))
  ELSE f.s * BigToInt(BigShr(f.m, -f.e))

\* s * (q + a fraction): guard says the fraction is at least 1/2, low that it
\* is not 0 or 1/2
RoundHalfUp(s, q, guard, low) ==
  FromInt(IF s = 1 THEN (IF guard THEN q + 1 ELSE q)
                   ELSE -(IF guard /\ low THEN q + 1 ELSE q))

\* Math.round: the nearest integer, a tie going toward +Infinity
MathRound(f) ==
  IF IsZero(f) \/ f.e >= 0 THEN f
  ELSE RoundHalfUp(f.s, BigToInt(BigShr(f.m, -f.e)),
                   BigBit(f.m, -f.e - 1) = 1, BigLowBits(f.m, -f.e - 1))

\* f is the integer n
IsInt(f, n) == f = FromInt(n)

(***************************************************************************)
(* JavaScript integer idioms                                               *)
(***************************************************************************)
\* a % b: the remainder takes the sign of the dividend
JsRem(a, b) == IF a >= 0 THEN a % b ELSE -((-a) % b)

\* a / b ^ 0: the quotient truncated toward zero
JsTruncDiv(a, b) == IF a >= 0 THEN a \div b ELSE -((-a) \div b)

\* the value of a property that is not there; no Number of the model equals it
undefined == 0 - 1

\* an operand that blocks every side when it is undefined
ToInt32_Blocked(c) == IF c = undefined THEN 15 ELSE c

\* the conversion & applies to an operand: undefined becomes 0
ToInt32(c) == IF c = undefined THEN 0 ELSE c

\* c & bit for a mask of one bit
BitAnd(c, bit) == ((ToInt32(c) \div bit) % 2) * bit

(***************************************************************************)
(* constants.js                                                            *)
(***************************************************************************)
TILE_GROUND == 16
TILE_SPAWN == 5

DIRECTION_NONE == 0
DIRECTION_LEFT == 1
DIRECTION_DOWN == 2
DIRECTION_RIGHT == 3
DIRECTION_UP == 4

GAME_SPEED == 2

\* 0.13333333333331593
ERROR_CORRECTION == FromDecimal(<<1, 3333, 3333, 3333, 1593>>, 1)

\* COLLISIONS[id]; an id without an entry reads undefined
COLLISIONS(id) ==
  CASE id = 43 -> 4
    [] id = 45 -> 4
    [] id = 46 -> 1
    [] id = 59 -> 8
    [] id = 18 -> 4
    [] id = 55 -> 4
    [] id = 15 -> 1
    [] id = 2 -> 10
    [] id = 30 -> 10
    [] id = 31 -> 5
    [] id = 57 -> 11
    [] id = 4 -> 14
    [] id = 32 -> 14
    [] id = 58 -> 14
    [] id = 28 -> 15
    [] OTHER -> undefined

(***************************************************************************)
(* The map assets (maps/1.json .. 5.json).  All levels share the width,    *)
(* height and tile size of the first one.  The shipped maps are 16 x 16    *)
(* tiles of 8 pixels; the model keeps the tile size and bounds the grid.   *)
(***************************************************************************)
width == 3
height == 3
tileSize == 8
\* entries of MAPS
NumLevels == 2
\* uncaught TypeErrors after which the model stops following a throwing loop
MaxErrors == 2

Cells == 0 .. (width * height - 1)
Levels == 0 .. (NumLevels - 1)

(***************************************************************************)
(* views/game.js: loadLevel                                                *)
(***************************************************************************)
indexToRenderedXY(i) ==
  [x |-> tileSize * JsRem(i, width), y |-> tileSize * JsTruncDiv(i, width)]

\* a meta whose key starts at index 0
NewMeta_KeyZero ==
  [spawn |-> -1, key |-> 0, door |-> -1, secret |-> -1, stairs |-> -1,
   dog |-> -1, fire |-> -1, chests |-> << >>, skeletons |-> << >>,
   zombies |-> << >>, cultists |-> << >>, ghosts |-> << >>, slimes |-> << >>]

NewMeta ==
  [spawn |-> -1, key |-> -1, door |-> -1, secret |-> -1, stairs |-> -1,
   dog |-> -1, fire |-> -1, chests |-> << >>, skeletons |-> << >>,
   zombies |-> << >>, cultists |-> << >>, ghosts |-> << >>, slimes |-> << >>]

\* a callback whose first test of id 20 does not return: the second test
\* records the index in meta.fire as well and the id stays
NormalizeCell_DogFallsThrough(id, i, meta) ==
  IF id = TILE_SPAWN THEN [id |-> TILE_GROUND, meta |-> [meta EXCEPT !.spawn = i]]
  ELSE IF id = 11 THEN [id |-> TILE_GROUND, meta |-> [meta EXCEPT !.skeletons = Append(@, i)]]
  ELSE IF id = 12 THEN [id |-> TILE_GROUND, meta |-> [meta EXCEPT !.zombies = Append(@, i)]]
  ELSE IF id = 10 THEN [id |-> TILE_GROUND, meta |-> [meta EXCEPT !.cultists = Append(@, i)]]
  ELSE IF id = 24 THEN [id |-> TILE_GROUND, meta |-> [meta EXCEPT !.ghosts = Append(@, i)]]
  ELSE IF id = 23 THEN [id |-> TILE_GROUND, meta |-> [meta EXCEPT !.slimes = Append(@, i)]]
  ELSE IF id = 20 THEN [id |-> id, meta |-> [meta EXCEPT !.dog = i, !.fire = i]]
  ELSE LET m2 == IF id = 81 THEN [meta EXCEPT !.key = i] ELSE meta
           m3 == IF id = 55 THEN [m2 EXCEPT !.door = i] ELSE m2
           m4 == IF id = 48 THEN [m3 EXCEPT !.stairs = i] ELSE m3
           m5 == IF id = 52 THEN [m4 EXCEPT !.chests = Append(@, i)] ELSE m4
       IN  [id |-> id, meta |-> m5]

\* the callback of map.data.map: the id it returns and meta as it leaves it
NormalizeCell(id, i, meta) ==
  IF id = TILE_SPAWN THEN [id |-> TILE_GROUND, meta |-> [meta EXCEPT !.spawn = i]]
  ELSE IF id = 11 THEN [id |-> TILE_GROUND, meta |-> [meta EXCEPT !.skeletons = Append(@, i)]]
  ELSE IF id = 12 THEN [id |-> TILE_GROUND, meta |-> [meta EXCEPT !.zombies = Append(@, i)]]
  ELSE IF id = 10 THEN [id |-> TILE_GROUND, meta |-> [meta EXCEPT !.cultists = Append(@, i)]]
  ELSE IF id = 24 THEN [id |-> TILE_GROUND, meta |-> [meta EXCEPT !.ghosts = Append(@, i)]]
  ELSE IF id = 23 THEN [id |-> TILE_GROUND, meta |-> [meta EXCEPT !.slimes = Append(@, i)]]
  ELSE IF id = 20 THEN [id |-> TILE_GROUND, meta |-> [meta EXCEPT !.dog = i]]
  ELSE LET m1 == IF id = 20 THEN [meta EXCEPT !.fire = i] ELSE meta
           m2 == IF id = 81 THEN [m1 EXCEPT !.key = i] ELSE m1
           m3 == IF id = 55 THEN [m2 EXCEPT !.door = i] ELSE m2
           m4 == IF id = 48 THEN [m3 EXCEPT !.stairs = i] ELSE m3
           m5 == IF id = 52 THEN [m4 EXCEPT !.chests = Append(@, i)] ELSE m4
       IN  [id |-> id, meta |-> m5]

RECURSIVE NormalizeFrom(_, _, _)
\* a pass that replaces the key tile by ground as well
NormalizeNext_ReplaceKey(data, i, c) ==
  NormalizeFrom([data EXCEPT ![i] = IF c.id = 81 THEN TILE_GROUND ELSE c.id],
                i + 1, c.meta)

\* a pass that returns the zombie marker for a skeleton
NormalizeNext_Zombie(data, i, c) ==
  NormalizeFrom([data EXCEPT ![i] = IF data[i] = 11 THEN 12 ELSE c.id], i + 1, c.meta)

\* a pass that records the markers and leaves every id in place
NormalizeNext_KeepId(data, i, c) == NormalizeFrom(data, i + 1, c.meta)

\* map.data.map(...) from index i on: the new array and meta; c is what the
\* callback made of the cell at i
NormalizeNext(data, i, c) == NormalizeFrom([data EXCEPT ![i] = c.id], i + 1, c.meta)

NormalizeFrom(data, i, meta) ==
  IF i \notin DOMAIN data THEN [data |-> data, meta |-> meta]
  ELSE NormalizeNext(data, i, NormalizeCell(data[i], i, meta))

Normalize(data) == NormalizeFrom(data, 0, NewMeta)

\* a node whose coordinates are exchanged
GraphNode_Transposed(id, i) ==
  [id |-> id, neighbours |-> {}, x |-> JsTruncDiv(i, width), y |-> JsRem(i, width)]

GraphNode(id, i) ==
  [id |-> id, neighbours |-> {}, x |-> JsRem(i, width), y |-> JsTruncDiv(i, width)]

\* an add that records the edge on the receiver only
add_OneWay(graph, a, b) ==
  [graph EXCEPT ![a].neighbours = @ \cup {b}]

\* GraphNode.add: graph[a].add(graph[b])
add(graph, a, b) ==
  [graph EXCEPT ![a].neighbours = @ \cup {b}, ![b].neighbours = @ \cup {a}]

\* the tests without the guard on the first column
Tests_NoColumnGuard(i) ==
  (IF i - width >= 0
   THEN <<[node |-> i, node2 |-> i - width, c1 |-> 8, c2 |-> 2]>> ELSE << >>)
  \o
  (IF i - 1 >= 0
   THEN <<[node |-> i, node2 |-> i - 1, c1 |-> 1, c2 |-> 4]>> ELSE << >>)

\* the pairs the callback of graph.map tests for the node at index i, in its
\* order: the cell above, then the cell to the left, each with the bit tested
\* in the node's own mask (c1) and in the other node's mask (c2)
Tests(i) ==
  (IF i - width >= 0
   THEN <<[node |-> i, node2 |-> i - width, c1 |-> 8, c2 |-> 2]>> ELSE << >>)
  \o
  (IF JsRem(i, width) # 0
   THEN <<[node |-> i, node2 |-> i - 1, c1 |-> 1, c2 |-> 4]>> ELSE << >>)

\* a test that reads the node's own mask only
Test_OwnMask(graph, t) ==
  IF BitAnd(COLLISIONS(graph[t.node].id), t.c1) = 0
  THEN add(graph, t.node, t.node2)
  ELSE graph

\* if (!(c1 & bit) && !(c2 & bit)) node.add(node2)
Test(graph, t) ==
  IF /\ BitAnd(COLLISIONS(graph[t.node].id), t.c1) = 0
     /\ BitAnd(COLLISIONS(graph[t.node2].id), t.c2) = 0
  THEN add(graph, t.node, t.node2)
  ELSE graph

RECURSIVE TestAll(_, _)
TestAll(graph, ts) ==
  IF Len(ts) = 0 THEN graph ELSE TestAll(Test(graph, Head(ts)), Tail(ts))

\* the callback of graph.map for the node at index i
Connect(graph, i) == TestAll(graph, Tests(i))

RECURSIVE ConnectFrom(_, _)
ConnectFrom(graph, i) ==
  IF i \notin DOMAIN graph THEN graph ELSE ConnectFrom(Connect(graph, i), i + 1)

BuildGraph(data) == ConnectFrom([i \in DOMAIN data |-> GraphNode(data[i], i)], 0)

\* a table with the opposite sides exchanged: up with down, left with right
collisionMap_Mirrored(id) ==
  IF COLLISIONS(id) = undefined THEN undefined
  ELSE (BitAnd(COLLISIONS(id), 8) \div 4) + (BitAnd(COLLISIONS(id), 2) * 4)
         + (BitAnd(COLLISIONS(id), 4) \div 4) + (BitAnd(COLLISIONS(id), 1) * 4)

\* views/game.js: the collisionMap literal inside levelLoader
collisionMap(id) ==
  CASE id = 43 -> 4
    [] id = 45 -> 4
    [] id = 46 -> 1
    [] id = 59 -> 8
    [] id = 18 -> 4
    [] id = 55 -> 4
    [] id = 15 -> 1
    [] id = 2 -> 10
    [] id = 30 -> 10
    [] id = 31 -> 5
    [] id = 57 -> 11
    [] id = 4 -> 14
    [] id = 32 -> 14
    [] id = 58 -> 14
    [] id = 28 -> 15
    [] OTHER -> undefined

\* views/game.js: if (!(c1 & bit) && !(c2 & bit)) node.add(node2), with c1 and
\* c2 read from collisionMap; the guards and the bits are those of Tests
levelLoaderTest(graph, t) ==
  IF /\ BitAnd(collisionMap(graph[t.node].id), t.c1) = 0
     /\ BitAnd(collisionMap(graph[t.node2].id), t.c2) = 0
  THEN add(graph, t.node, t.node2)
  ELSE graph

RECURSIVE levelLoaderTestAll(_, _)
levelLoaderTestAll(graph, ts) ==
  IF Len(ts) = 0 THEN graph
  ELSE levelLoaderTestAll(levelLoaderTest(graph, Head(ts)), Tail(ts))

RECURSIVE levelLoaderConnectFrom(_, _)
levelLoaderConnectFrom(graph, i) ==
  IF i \notin DOMAIN graph THEN graph
  ELSE levelLoaderConnectFrom(levelLoaderTestAll(graph, Tests(i)), i + 1)

\* views/game.js: the graph levelLoader builds of the normalized map data
levelLoaderGraph(data) ==
  levelLoaderConnectFrom([i \in DOMAIN data |-> GraphNode(data[i], i)], 0)

\* Sprite({ x, y, image }): the image is a canvas of tileSize pixels
Sprite(pos) == [x |-> FromInt(pos.x), y |-> FromInt(pos.y), width |-> tileSize]

\* new Entity(gameObject, level)
Entity(gameObject, lvl) ==
  [object |-> gameObject, level |-> lvl, direction |-> DIRECTION_NONE,
   x |-> Zero, y |-> Zero]

\* loadLevel(n) once the tileset promise has resolved: the map data it leaves in
\* MAPS[n], the level object it returns and the Entity it creates
LevelOf(norm, graph) ==
  [data |-> norm.data,
   meta |-> norm.meta,
   graph |-> graph,
   player |-> Entity(Sprite(indexToRenderedXY(norm.meta.spawn)), [graph |-> graph])]

Graphed(norm) == LevelOf(norm, BuildGraph(norm.data))

loadLevel(maps, n) == Graphed(Normalize(maps[n]))

(***************************************************************************)
(* entity.js: Entity.update(delta, moveUpdate), stage by stage             *)
(***************************************************************************)
\* a sampling that leaves the request pending
Sample_KeepRequest(e) ==
  CASE e.direction = DIRECTION_UP -> [e EXCEPT !.y = FromInt(-1)]
    [] e.direction = DIRECTION_DOWN -> [e EXCEPT !.y = FromInt(1)]
    [] e.direction = DIRECTION_LEFT -> [e EXCEPT !.x = FromInt(-1)]
    [] e.direction = DIRECTION_RIGHT -> [e EXCEPT !.x = FromInt(1)]
    [] OTHER -> e

\* the switch on this.direction, and the reset of the request
Sample(e) ==
  LET e1 == CASE e.direction = DIRECTION_UP -> [e EXCEPT !.y = FromInt(-1)]
              [] e.direction = DIRECTION_DOWN -> [e EXCEPT !.y = FromInt(1)]
              [] e.direction = DIRECTION_LEFT -> [e EXCEPT !.x = FromInt(-1)]
              [] e.direction = DIRECTION_RIGHT -> [e EXCEPT !.x = FromInt(1)]
              [] OTHER -> e
  IN  [e1 EXCEPT !.direction = DIRECTION_NONE]

\* x, y and i of the validation step
CellXY(x, y) == [x |-> x, y |-> y, i |-> y * width + x]

CellOf(e) ==
  CellXY(Trunc(FDivSmall(e.object.x, e.object.width)),
         Trunc(FDivSmall(e.object.y, e.object.width)))

\* this.level.graph[i] is undefined, so node.neighbours throws a TypeError
NoNode(e) == CellOf(e).i \notin DOMAIN e.level.graph

\* a validation that compares the column only
neighbour_XOnly(e) ==
  LET c == CellOf(e)
  IN  \E n \in e.level.graph[c.i].neighbours :
        FromInt(e.level.graph[n].x) = FAdd(FromInt(c.x), e.x)

\* a validation that a node with any neighbour passes
some_Any(e, c) == e.level.graph[c.i].neighbours # {}

\* [...node.neighbours].some(n => n.x === x + this.x && n.y === y + this.y)
some(e, c) ==
  \E n \in e.level.graph[c.i].neighbours :
    /\ FromInt(e.level.graph[n].x) = FAdd(FromInt(c.x), e.x)
    /\ FromInt(e.level.graph[n].y) = FAdd(FromInt(c.y), e.y)

neighbour(e) == some(e, CellOf(e))

\* a cancellation that clears one axis only
Validate_KeepY(e) == IF neighbour(e) THEN e ELSE [e EXCEPT !.x = Zero]

\* if (!neighbour) { this.x = 0; this.y = 0 }
Validate(e) == IF neighbour(e) THEN e ELSE [e EXCEPT !.x = Zero, !.y = Zero]

\* this.object.x += this.x * delta * GAME_SPEED * (this.object.width * 2 - ERROR_CORRECTION)
Advance(pos, v, delta, w) ==
  FAdd(pos, FMul(FMul(FMul(v, delta), FromInt(GAME_SPEED)),
                 FSub(FromInt(w * 2), ERROR_CORRECTION)))

Integrate(e, delta) ==
  [e EXCEPT !.object.x = Advance(@, e.x, delta, e.object.width),
            !.object.y = Advance(@, e.y, delta, e.object.width)]

\* a decay that leaves GAME_SPEED out
Decay_Unscaled(v, delta) ==
  LET v1 == IF FCmp(v, Zero) > 0 THEN FMax(FSub(v, delta), Zero) ELSE v
  IN  IF FCmp(v1, Zero) < 0 THEN FMin(FAdd(v1, delta), Zero) ELSE v1

\* a decay without the clamps at 0
Decay_NoClamp(v, delta) ==
  LET d == FMul(delta, FromInt(GAME_SPEED))
      v1 == IF FCmp(v, Zero) > 0 THEN FSub(v, d) ELSE v
  IN  IF FCmp(v1, Zero) < 0 THEN FAdd(v1, d) ELSE v1

\* if (this.x > 0) this.x = Math.max(this.x - delta * GAME_SPEED, 0)
DecayPositive(v, delta) ==
  IF FCmp(v, Zero) > 0 THEN FMax(FSub(v, FMul(delta, FromInt(GAME_SPEED))), Zero) ELSE v

\* if (this.x < 0) this.x = Math.min(this.x + delta * GAME_SPEED, 0)
DecayNegative(v, delta) ==
  IF FCmp(v, Zero) < 0 THEN FMin(FAdd(v, FMul(delta, FromInt(GAME_SPEED))), Zero) ELSE v

\* the two ifs on one axis delta
Decay(v, delta) == DecayNegative(DecayPositive(v, delta), delta)

Settle(e, delta) == [e EXCEPT !.x = Decay(@, delta), !.y = Decay(@, delta)]

\* an update that never rounds the position
Snap_Keep(e) == e

\* if (this.x === 0 && this.y === 0) round object.x and object.y
Snap(e) ==
  IF IsZero(e.x) /\ IsZero(e.y)
  THEN [e EXCEPT !.object.x = MathRound(@), !.object.y = MathRound(@)]
  ELSE e

\* an update that integrates before it samples and validates
update_IntegrateFirst(e, delta, moveUpdate) ==
  Snap(Settle(IF moveUpdate THEN Validate(Sample(Integrate(e, delta)))
              ELSE Integrate(e, delta), delta))

\* an update that samples the request in every call
update_AlwaysSample(e, delta, moveUpdate) ==
  Snap(Settle(Integrate(Validate(Sample(e)), delta), delta))

\* an update that integrates the sampled delta unvalidated
update_NoValidate(e, delta, moveUpdate) ==
  Snap(Settle(Integrate(IF moveUpdate THEN Sample(e) ELSE e, delta), delta))

update(e, delta, moveUpdate) ==
  Snap(Settle(Integrate(IF moveUpdate THEN Validate(Sample(e)) ELSE e, delta), delta))

(***************************************************************************)
(* main.js and kontra's GameLoop                                           *)
(***************************************************************************)
fps == 60
\* let step = 1 / fps: the dt of every update call
step == FDivInt(1, fps)

\* references to Entity objects: the one of the first level, which the
\* handlers of h/j/k/l capture (const { player } = level), and the one of the
\* level installed by a later load; the Entity of a replaced level is
\* unreachable unless it is the captured one
player == 1
later == 2
NoObject == [direction |-> -1]
NoLevel == [player |-> 0]

VARIABLES
  MAPS,     \* MAPS[n][0].data, the tile ids of level n
  level,    \* let level: the active level object
  heap,     \* the Entity objects by reference
  acc,      \* let acc: the accumulator of the move tick
  started,  \* the start-up task has run: keys bound, loop started
  errors,   \* TypeErrors thrown out of the update callback so far
  loads,    \* the calls of loadLevel by level keys that have not been assigned yet
  move,     \* history: the last move the active player committed
  keys,     \* history: the direction requests since the last move tick
  asked,    \* history: the last two level indices the level keys asked for
  loop,     \* GameLoop's closure: accumulator, last, now, dt, and where frame() is
  TILESET,  \* the state of the tileset promise
  entity,   \* the Entity of src/js/entity.js: _x, _y, moving and its object
  bfs       \* a call of bfs: its arguments, queue, visited, prev, the callbacks' calls

vars ==
  <<MAPS, level, heap, acc, started, errors, loads, move, keys, asked, loop,
    TILESET, entity, bfs>>

\* no Entity of src/js/entity.js has been constructed
NoEntity ==
  [_x |-> Zero, _y |-> Zero, moving |-> FALSE, calls |-> 0,
   asked |-> [axis |-> "", v |-> 0],
   object |-> [x |-> Zero, y |-> Zero, width |-> 0]]

\* bfs has not been called
NoSearch ==
  [graph |-> << >>, start |-> undefined, queue |-> << >>, visited |-> {},
   prev |-> << >>, first |-> << >>, calls |-> << >>, pc |-> "idle"]

\* pc: frame() is not running ("idle") or is in its while loop; sum, updates
\* and renders are history: the accumulator after accumulator += dt, and the
\* update and render calls, of the latest frame
NoLoop ==
  [accumulator |-> Zero, last |-> Zero, now |-> Zero, dt |-> Zero, pc |-> "idle",
   sum |-> Zero, updates |-> 0, renders |-> 0]

\* last: the direction last requested and not sampled yet; replaced: before the
\* request that was last when the latest move tick (or this state) came, the
\* keys had asked for another direction in the same window
NoKeys == [last |-> DIRECTION_NONE, replaced |-> FALSE]

\* no level index
NoIndex == 0 - 1
NoAsked == <<NoIndex, NoIndex>>

\* a call of loadLevel suspended at await TILESET
NoLoad == [data |-> << >>]

\* from: where the move began; dx, dy: its direction; v0: the axis delta it
\* began with; n: the update calls that have acted on that delta; refused: the
\* last move tick cancelled a request
NoMove ==
  [from |-> [x |-> Zero, y |-> Zero], dx |-> 0, dy |-> 0, v0 |-> Zero, n |-> 0,
   refused |-> FALSE]

Moving(e) == ~IsZero(e.x) \/ ~IsZero(e.y)

\* an assignment that takes over the graph of the new level only
Assign_GraphOnly(n, ref, l) ==
  /\ level' = IF started
              THEN [graph |-> l.graph, player |-> level.player,
                    meta |-> level.meta, engine |-> level.engine]
              ELSE [graph |-> l.graph, player |-> ref, meta |-> l.meta, engine |-> n]
  /\ heap' = [heap EXCEPT ![ref] = l.player]

\* level = l, the level loadLevel(n) returned, its Entity held at ref; engine
\* is the map object MAPS[n][0] the level's TileEngine draws (layers: [map])
Assign(n, ref, l) ==
  /\ level' = [graph |-> l.graph, player |-> ref, meta |-> l.meta, engine |-> n]
  /\ heap' = [heap EXCEPT ![ref] = l.player]

\* loadLevel(n) run to its end and level = l in one step
Install(n, ref, l) ==
  /\ MAPS' = [MAPS EXCEPT ![n] = l.data]
  /\ Assign(n, ref, l)

\* the start-up task: level = await loadLevel(), the key bindings, the loop;
\* start() sets last = performance.now(), the origin of the model's clock
Start ==
  /\ ~started
  /\ TILESET = "resolved"
  /\ Install(0, player, loadLevel(MAPS, 0))
  /\ acc' = Zero
  /\ started' = TRUE
  /\ loop' = [loop EXCEPT !.last = Zero]
  /\ UNCHANGED <<entity, bfs, errors, loads, move, keys, asked, TILESET>>

\* bindKeys('h' ...): player.direction = d on the captured Entity
\* events dispatched while a load is suspended
Idle_Always == TRUE

\* no call of loadLevel is suspended.  TILESET resolved before the first level
\* was built and the keys were bound, so a level key's await TILESET and its
\* await loadLevel(n) resume in the microtasks of that key's event: the next
\* key event or frame runs after them.
Idle == loads = << >> /\ loop.pc = "idle"

\* a handler that keeps a request that is already pending
SetDirection_IfNone(d) ==
  heap' = IF heap[player].direction = DIRECTION_NONE
          THEN [heap EXCEPT ![player].direction = d]
          ELSE heap

\* () => (player.direction = d)
SetDirection(d) == heap' = [heap EXCEPT ![player].direction = d]

\* a key event runs once the microtasks of the event before it are done
Press(d) ==
  /\ started
  /\ Idle
  /\ SetDirection(d)
  /\ UNCHANGED <<entity, bfs, MAPS, level, acc, started, errors, loads, move, keys, asked,
                 loop, TILESET>>

KeyH == Press(DIRECTION_LEFT)
KeyJ == Press(DIRECTION_DOWN)
KeyK == Press(DIRECTION_UP)
KeyL == Press(DIRECTION_RIGHT)

\* the same handlers, with the history of the requests kept in keys
PressNoted(d) ==
  /\ started
  /\ Idle
  /\ SetDirection(d)
  /\ keys' = [last |-> d,
              replaced |-> /\ keys.last # DIRECTION_NONE
                           /\ (keys.replaced \/ keys.last # d)]
  /\ UNCHANGED <<entity, bfs, MAPS, level, acc, started, errors, loads, move, asked,
                 loop, TILESET>>

NotedH == PressNoted(DIRECTION_LEFT)
NotedJ == PressNoted(DIRECTION_DOWN)
NotedK == PressNoted(DIRECTION_UP)
NotedL == PressNoted(DIRECTION_RIGHT)

\* bindKeys(n + 1): level = await loadLevel(n).  The tileset promise resolved
\* before the first level was built, so the await resumes in a microtask and
\* the load and the assignment finish before any other key or frame runs.
KeyLevel(n) ==
  /\ started
  /\ Idle
  /\ Install(n, later, loadLevel(MAPS, n))
  /\ move' = NoMove
  /\ UNCHANGED <<entity, bfs, acc, started, errors, loads, keys, asked, loop, TILESET>>

\* loadLevel(n) suspended at await TILESET; built: it has returned the level
\* l; rejected: it has thrown
Called(n) == [n |-> n, built |-> FALSE, rejected |-> FALSE, l |-> NoLoad]

\* the handler of a level key up to its await: loadLevel(n) has run to its
\* await TILESET
LevelKey(n) ==
  /\ started
  /\ Idle
  /\ loads' = Append(loads, Called(n))
  /\ asked' = <<asked[2], n>>
  /\ UNCHANGED <<entity, bfs, MAPS, level, heap, acc, started, errors, move, keys,
                 loop, TILESET>>

\* loadLevel(n) from its await to its return: l is the level it returns
Finish(n, l) ==
  /\ MAPS' = [MAPS EXCEPT ![n] = l.data]
  /\ loads' = <<[n |-> n, built |-> TRUE, rejected |-> FALSE, l |-> l]>>
               \o Tail(loads)

\* a loadLevel that throws for a missing map only
Rejects_RangeOnly(n) == n \notin DOMAIN MAPS

\* await TILESET throws the rejection of the promise; const [map] = MAPS[n]
\* throws a TypeError when MAPS[n] is undefined, which is not iterable
Rejects(n) == TILESET = "rejected" \/ n \notin DOMAIN MAPS

\* the head of loads is suspended at await TILESET and the promise is settled
Settled ==
  /\ loads # << >>
  /\ ~Head(loads).built
  /\ ~Head(loads).rejected
  /\ TILESET # "pending"

loadLevelResume ==
  /\ Settled
  /\ ~Rejects(Head(loads).n)
  /\ Finish(Head(loads).n, loadLevel(MAPS, Head(loads).n))
  /\ UNCHANGED <<entity, bfs, level, heap, acc, started, errors, move, keys, asked,
                 loop, TILESET>>

\* a call that returns a level object without graph and data for an index
\* outside MAPS
Reject_Malformed(load) ==
  IF load.n \in DOMAIN MAPS THEN [load EXCEPT !.rejected = TRUE]
  ELSE [load EXCEPT !.built = TRUE,
                    !.l = [data |-> << >>, meta |-> NewMeta, graph |-> << >>,
                           player |-> NoObject]]

\* the async function throws: its promise is rejected
Reject(load) == [load EXCEPT !.rejected = TRUE]

\* loadLevel(n) from its await to the throw
loadLevelReject ==
  /\ Settled
  /\ Rejects(Head(loads).n)
  /\ loads' = <<Reject(Head(loads))>> \o Tail(loads)
  /\ UNCHANGED <<entity, bfs, MAPS, level, heap, acc, started, errors, move, keys, asked,
                 loop, TILESET>>

\* img.onload: resolve(img)
onload ==
  /\ TILESET = "pending"
  /\ TILESET' = "resolved"
  /\ UNCHANGED <<entity, bfs, MAPS, level, heap, acc, started, errors, loads, move, keys,
                 asked, loop>>

\* img.onerror: reject(err)
onerror ==
  /\ TILESET = "pending"
  /\ TILESET' = "rejected"
  /\ UNCHANGED <<entity, bfs, MAPS, level, heap, acc, started, errors, loads, move, keys,
                 asked, loop>>

\* the start-up task from its await on: let level = the level returned, the
\* key bindings, the loop
StartResume ==
  /\ ~started
  /\ loads # << >>
  /\ Head(loads).built
  /\ Assign(0, player, Head(loads).l)
  /\ loads' = Tail(loads)
  /\ acc' = Zero
  /\ started' = TRUE
  /\ loop' = [loop EXCEPT !.last = Zero]
  /\ UNCHANGED <<entity, bfs, MAPS, errors, move, keys, asked, TILESET>>

\* await loadLevel() throws in the start-up task: the task ends there, no key
\* is bound and no loop is started
StartReject ==
  /\ ~started
  /\ loads # << >>
  /\ Head(loads).rejected
  /\ loads' = Tail(loads)
  /\ UNCHANGED <<entity, bfs, MAPS, level, heap, acc, started, errors, move, keys, asked,
                 loop, TILESET>>

\* await loadLevel(n) throws in the handler of a level key: the assignment to
\* level is not made
LevelKeyReject ==
  /\ started
  /\ loads # << >>
  /\ Head(loads).rejected
  /\ loads' = Tail(loads)
  /\ UNCHANGED <<entity, bfs, MAPS, level, heap, acc, started, errors, move, keys, asked,
                 loop, TILESET>>

\* the handler of a level key from its await on: level = the level returned
LevelKeyResume ==
  /\ started
  /\ loads # << >>
  /\ Head(loads).built
  /\ Assign(Head(loads).n, later, Head(loads).l)
  /\ loads' = Tail(loads)
  /\ move' = NoMove
  /\ UNCHANGED <<entity, bfs, MAPS, acc, started, errors, keys, asked, loop, TILESET>>

\* the history of the active player's move over one update call: e is the
\* Entity before the call, e1 after the sampling and validation of a move tick
Track(e, e1, moveUpdate) ==
  IF moveUpdate /\ Moving(e1)
  THEN [from |-> [x |-> e.object.x, y |-> e.object.y],
        dx |-> Sign(e1.x), dy |-> Sign(e1.y),
        v0 |-> IF IsZero(e1.x) THEN e1.y ELSE e1.x, n |-> 1, refused |-> FALSE]
  ELSE [move EXCEPT
          !.n = IF Moving(e) THEN @ + 1 ELSE @,
          !.refused = IF moveUpdate THEN e.direction # DIRECTION_NONE ELSE @]

\* the callback once acc += delta has given acc1: level.player.update(delta,
\* moveUpdate) on the Entity e, then acc = 0 if this was a move tick
Frame(acc1, moveUpdate, e) ==
  /\ keys' = IF moveUpdate THEN [keys EXCEPT !.last = DIRECTION_NONE] ELSE keys
  /\ IF moveUpdate /\ NoNode(e)
     THEN /\ errors < MaxErrors
          /\ acc' = acc1
          /\ heap' = [heap EXCEPT ![level.player] = Sample(e)]
          /\ errors' = errors + 1
          /\ UNCHANGED move
     ELSE /\ acc' = IF moveUpdate THEN Zero ELSE acc1
          /\ heap' = [heap EXCEPT ![level.player] = update(e, step, moveUpdate)]
          /\ move' = Track(e, IF moveUpdate THEN Validate(Sample(e)) ELSE e,
                           moveUpdate)
          /\ UNCHANGED errors

\* acc += delta has given acc1; the call is a move tick if acc >= 1 / GAME_SPEED
Accumulate(acc1) ==
  Frame(acc1, FCmp(acc1, FDivInt(1, GAME_SPEED)) >= 0, heap[level.player])

\* GameLoop's update(delta) callback, called with delta = step
GameLoopUpdate ==
  /\ started
  /\ Idle
  /\ Accumulate(FAdd(acc, step))
  /\ UNCHANGED <<entity, bfs, MAPS, level, started, loads, asked, loop, TILESET>>

\* player.update(delta, false) called on its own with the loop's delta: the
\* integration, the decay and the snap, with no sampling of a request
EntityUpdate ==
  /\ started
  /\ LET e == heap[level.player]
     IN  /\ heap' = [heap EXCEPT ![level.player] = update(e, step, FALSE)]
         /\ move' = Track(e, e, FALSE)
  /\ UNCHANGED <<entity, bfs, MAPS, level, acc, started, errors, loads, keys, asked,
                 loop, TILESET>>

\* let delta = 1E3 / fps, in milliseconds
deltaMs == FDivInt(1000, fps)

\* a frame that returns before it stores the timestamp
Skip_KeepLast(l, now, dt) ==
  [l EXCEPT !.now = now, !.dt = dt, !.updates = 0, !.renders = 0]

\* now = performance.now(); dt = now - last; last = now; if (dt > 1E3) return
Skip(l, now, dt) ==
  [l EXCEPT !.last = now, !.now = now, !.dt = dt, !.updates = 0, !.renders = 0]

\* ... accumulator += dt, and on to the while loop
Enter(l, now, dt) ==
  [l EXCEPT !.last = now, !.now = now, !.dt = dt, !.updates = 0, !.renders = 0,
            !.accumulator = FAdd(@, dt), !.sum = FAdd(l.accumulator, dt),
            !.pc = "while"]

Elapsed(l, now, dt) ==
  IF FCmp(dt, FromInt(1000)) > 0 THEN Skip(l, now, dt) ELSE Enter(l, now, dt)

\* frame() from its entry to the while loop, called by requestAnimationFrame
\* when performance.now() gives now
frame(now) ==
  /\ started
  /\ Idle
  /\ FCmp(now, loop.last) > 0
  /\ loop' = Elapsed(loop, now, FSub(now, loop.last))
  /\ UNCHANGED <<entity, bfs, MAPS, level, heap, acc, started, errors, loads, move, keys,
                 asked, TILESET>>

\* a loop that runs while accumulator > delta
Due_Strict(l) == FCmp(l.accumulator, deltaMs) > 0

\* while (accumulator >= delta)
Due(l) == FCmp(l.accumulator, deltaMs) >= 0

\* the update callback throws the TypeError of a missing node
Throws(acc1, e) == FCmp(acc1, FDivInt(1, GAME_SPEED)) >= 0 /\ NoNode(e)

\* one turn of the while loop: loop.update(step); accumulator -= delta.  A
\* TypeError thrown by the callback leaves frame() before the subtraction and
\* the render; requestAnimationFrame(frame) has been called already.
frameUpdate ==
  /\ started
  /\ loop.pc = "while"
  /\ Due(loop)
  /\ Accumulate(FAdd(acc, step))
  /\ loop' = IF Throws(FAdd(acc, step), heap[level.player])
             THEN [loop EXCEPT !.updates = @ + 1, !.pc = "idle"]
             ELSE [loop EXCEPT !.updates = @ + 1,
                               !.accumulator = FSub(@, deltaMs)]
  /\ UNCHANGED <<entity, bfs, MAPS, level, started, loads, asked, TILESET>>

\* the end of the while loop: clearFn(context); loop.render()
frameRender ==
  /\ started
  /\ loop.pc = "while"
  /\ ~Due(loop)
  /\ loop' = [loop EXCEPT !.renders = @ + 1, !.pc = "idle"]
  /\ UNCHANGED <<entity, bfs, MAPS, level, heap, acc, started, errors, loads, move, keys,
                 asked, TILESET>>

(***************************************************************************)
(* The maps the model starts from: every level holds exactly one spawn     *)
(* tile, as the shipped maps do.                                           *)
(***************************************************************************)
Ground == [i \in Cells |-> TILE_GROUND]

\* ground, one tile t at p, the spawn at s
OneWall(s, p, t) == [[Ground EXCEPT ![p] = t] EXCEPT ![s] = TILE_SPAWN]

\* ground, t at p and u at q, the spawn at s
TwoWalls(s, p, t, q, u) ==
  [[[Ground EXCEPT ![p] = t] EXCEPT ![q] = u] EXCEPT ![s] = TILE_SPAWN]

\* walls (id 28, closed on all sides) around the spawn at 0
Enclosed == [i \in Cells |-> IF i = 0 THEN TILE_SPAWN ELSE 28]

\* the levels after the first: open ground, the spawn in the last cell
Open == OneWall(width * height - 1, 0, TILE_GROUND)

LoadTiles == {TILE_GROUND, 59, 46, 43, 2, 28, 81}

\* two rows of ground over walls, one tile t at p, the spawn at s
TwoRows(s, p, t) ==
  [i \in Cells |-> IF i = s THEN TILE_SPAWN
                   ELSE IF i = p THEN t
                   ELSE IF i < 2 * width THEN TILE_GROUND ELSE 28]

\* first levels for the movement of the player
GameGrids ==
  {TwoRows(0, 1, 28), TwoRows(0, width, 59),
   TwoRows(width + 1, 1, 43), TwoRows(width + 1, width, 2)}

\* first levels for the level keys
SwapGrids == {Enclosed}

\* first levels for the loader
\* the cells that get a tile other than ground: the second interior cell of
\* row 1 and the cells around it
LoadCells == {2, width + 1, width + 2, 2 * width + 2} \cap Cells

LoadGrids ==
  {TwoWalls(s, p, t, q, u) :
     s \in {0, width + 1}, p \in LoadCells, q \in LoadCells,
     t \in LoadTiles, u \in LoadTiles}

InitWith(grids) ==
  /\ \E g \in grids : MAPS = [n \in Levels |-> IF n = 0 THEN g ELSE Open]
  /\ level = NoLevel
  /\ heap = [r \in {player, later} |-> NoObject]
  /\ acc = Zero
  /\ started = FALSE
  /\ errors = 0
  /\ loads = << >>
  /\ move = NoMove
  /\ keys = NoKeys
  /\ asked = NoAsked
  /\ loop = NoLoop
  /\ entity = NoEntity
  /\ bfs = NoSearch
  /\ TILESET = "resolved"

Next ==
  \/ Start
  \/ KeyH
  \/ KeyJ
  \/ KeyK
  \/ KeyL
  \/ \E n \in Levels : KeyLevel(n)
  \/ GameLoopUpdate

\* the program with its DEBUG block: direction keys, level keys, the loop
Init == InitWith(SwapGrids)
Spec == Init /\ [][Next]_vars

\* the build without the level keys of the DEBUG block
NextPlay ==
  \/ Start
  \/ KeyH
  \/ KeyJ
  \/ KeyK
  \/ KeyL
  \/ GameLoopUpdate

InitPlay == InitWith(GameGrids)
SpecPlay == InitPlay /\ [][NextPlay]_vars

\* the program with the level keys in their steps: the handler up to its
\* await, the rest of loadLevel, the assignment to level
NextSwap ==
  \/ Start
  \/ KeyH
  \/ KeyJ
  \/ KeyK
  \/ KeyL
  \/ \E n \in Levels : LevelKey(n)
  \/ loadLevelResume
  \/ LevelKeyResume
  \/ GameLoopUpdate

InitSwap == InitWith(SwapGrids)
SpecSwap == InitSwap /\ [][NextSwap]_vars

\* the direction keys with the history of their requests, on one first level
KeyGrids == {TwoRows(0, 1, 28)}

NextKeys ==
  \/ Start
  \/ NotedH
  \/ NotedJ
  \/ NotedK
  \/ NotedL
  \/ GameLoopUpdate

InitKeys == InitWith(KeyGrids)
SpecKeys == InitKeys /\ [][NextKeys]_vars

\* the loader alone: the first load and the loads of the level keys
NextLoad ==
  \/ Start
  \/ \E n \in Levels : KeyLevel(n)

InitLoad == InitWith(LoadGrids)
SpecLoad == InitLoad /\ [][NextLoad]_vars

\* the normalization pass on grids of markers: every level holds the same raw
\* data, three cells of it drawn from NormTiles, and level 0 alone is loaded
\* (at start-up) and loaded again (by its key), so that the other levels keep
\* the raw data
NormTiles == {TILE_SPAWN, 10, 11, 12, 23, 24, 20, 81, 55, 48, 52, TILE_GROUND, 28}
NormCells == {<<0, 1, 2>>, <<1, width, width * height - 1>>}
NormGrids ==
  {[i \in Cells |-> IF i = c[1] THEN t ELSE IF i = c[2] THEN u
                    ELSE IF i = c[3] THEN v ELSE TILE_GROUND] :
     c \in NormCells, t \in NormTiles, u \in NormTiles, v \in NormTiles}

InitNorm ==
  /\ \E g \in NormGrids : MAPS = [n \in Levels |-> g]
  /\ level = NoLevel
  /\ heap = [r \in {player, later} |-> NoObject]
  /\ acc = Zero
  /\ started = FALSE
  /\ errors = 0
  /\ loads = << >>
  /\ move = NoMove
  /\ keys = NoKeys
  /\ asked = NoAsked
  /\ loop = NoLoop
  /\ entity = NoEntity
  /\ bfs = NoSearch
  /\ TILESET = "resolved"

NextNorm ==
  \/ Start
  \/ KeyLevel(0)

SpecNorm == InitNorm /\ [][NextNorm]_vars

\* the decay on its own: the first level is loaded, the player holds a delta
\* v on one axis and no request, and update runs with the fixed delta
MaxStart == 5
Rate == FMul(step, FromInt(GAME_SPEED))
StartDeltas ==
  {FromInt(1), FromInt(-1)}
    \cup {FMul(FromInt(k), Rate) : k \in 1..MaxStart}
    \cup {Neg(FMul(FromInt(k), Rate)) : k \in 1..MaxStart}

InitSettle ==
  /\ MAPS = [n \in Levels |-> IF n = 0 THEN Normalize(Open).data ELSE Open]
  /\ level = [graph |-> loadLevel([n \in Levels |-> Open], 0).graph,
              player |-> player,
              meta |-> loadLevel([n \in Levels |-> Open], 0).meta,
              engine |-> 0]
  /\ \E v \in StartDeltas : \E axis \in {"x", "y"} :
       /\ heap = [r \in {player, later} |->
                    IF r = player
                    THEN [loadLevel([n \in Levels |-> Open], 0).player
                            EXCEPT ![axis] = v]
                    ELSE NoObject]
       /\ move = [NoMove EXCEPT !.v0 = v]
  /\ acc = Zero
  /\ started = TRUE
  /\ errors = 0
  /\ loads = << >>
  /\ keys = NoKeys
  /\ asked = NoAsked
  /\ loop = NoLoop
  /\ entity = NoEntity
  /\ bfs = NoSearch
  /\ TILESET = "resolved"

NextSettle == EntityUpdate
SpecSettle == InitSettle /\ [][NextSettle]_vars

\* player.update(delta, moveUpdate) called on its own with the loop's delta,
\* where the validation finds a node
Call(moveUpdate) ==
  /\ started
  /\ moveUpdate => ~NoNode(heap[level.player])
  /\ heap' = [heap EXCEPT
               ![level.player] = update(heap[level.player], step, moveUpdate)]
  /\ UNCHANGED <<entity, bfs, MAPS, level, acc, started, errors, loads, move, keys, asked,
                 loop, TILESET>>

\* a move tick at any moment of a move
EntityTick == Call(TRUE)
EntityStep == Call(FALSE)

\* update called with either value of moveUpdate in any order
NextAxis ==
  \/ EntityStep
  \/ EntityTick

\* a delta below the spacing of the doubles at 1: 1 - 49 * (1 / 49)
Residue == FSub(FromInt(1), FMul(FromInt(49), FDivInt(1, 49)))
AxisDeltas == StartDeltas \cup {Zero, Residue, Neg(Residue)}
Directions ==
  {DIRECTION_NONE, DIRECTION_UP, DIRECTION_DOWN, DIRECTION_LEFT, DIRECTION_RIGHT}

\* update on its own: the level after the first is loaded, the player holds a
\* delta v on one axis and any request; move keeps v and the axis
InitAxis ==
  /\ MAPS = [n \in Levels |-> IF n = 0 THEN Normalize(Open).data ELSE Open]
  /\ level = [graph |-> loadLevel([n \in Levels |-> Open], 0).graph,
              player |-> player,
              meta |-> loadLevel([n \in Levels |-> Open], 0).meta,
              engine |-> 0]
  /\ \E v \in AxisDeltas : \E axis \in {"x", "y"} : \E d \in Directions :
       /\ heap = [r \in {player, later} |->
                    IF r = player
                    THEN [[loadLevel([n \in Levels |-> Open], 0).player
                             EXCEPT ![axis] = v] EXCEPT !.direction = d]
                    ELSE NoObject]
       /\ move = [NoMove EXCEPT !.v0 = v,
                                !.dx = IF axis = "x" THEN 1 ELSE 0,
                                !.dy = IF axis = "y" THEN 1 ELSE 0]
  /\ acc = Zero
  /\ started = TRUE
  /\ errors = 0
  /\ loads = << >>
  /\ keys = NoKeys
  /\ asked = NoAsked
  /\ loop = NoLoop
  /\ entity = NoEntity
  /\ bfs = NoSearch
  /\ TILESET = "resolved"

SpecAxis == InitAxis /\ [][NextAxis]_vars

\* the values of performance.now() at which frames run, in thirds of a
\* millisecond: frames one step, less than one step, several steps and more
\* than a second after the frame before
Clock == {FDivInt(p, 3) : p \in {50, 60, 100, 120, 1800, 4800, 4920, 4950, 8100}}

\* the first level of the frames: the player can walk down and along row 1
FrameGrids == {TwoRows(0, 1, 28)}

\* the program, the loop as the frames it runs
NextFrame ==
  \/ Start
  \/ KeyH
  \/ KeyJ
  \/ KeyK
  \/ KeyL
  \/ \E n \in Levels : KeyLevel(n)
  \/ \E now \in Clock : frame(now)
  \/ frameUpdate
  \/ frameRender

InitFrame == InitWith(FrameGrids)
SpecFrame == InitFrame /\ [][NextFrame]_vars

\* the arguments of loadLevel: the indices of MAPS, one below and one above
Indexes == (0 - 1)..NumLevels

\* the program from the evaluation of its modules: the tileset image is
\* loading, the start-up task is suspended in loadLevel(); later loadLevel is
\* called with every index, those the level keys pass and those outside MAPS
InitBoot ==
  /\ MAPS = [n \in Levels |-> IF n = 0 THEN Enclosed ELSE Open]
  /\ level = NoLevel
  /\ heap = [r \in {player, later} |-> NoObject]
  /\ acc = Zero
  /\ started = FALSE
  /\ errors = 0
  /\ loads = <<Called(0)>>
  /\ move = NoMove
  /\ keys = NoKeys
  /\ asked = NoAsked
  /\ loop = NoLoop
  /\ entity = NoEntity
  /\ bfs = NoSearch
  /\ TILESET = "pending"

NextBoot ==
  \/ onload
  \/ onerror
  \/ loadLevelResume
  \/ loadLevelReject
  \/ StartResume
  \/ StartReject
  \/ KeyJ
  \/ KeyL
  \/ \E n \in Indexes : LevelKey(n)
  \/ LevelKeyResume
  \/ LevelKeyReject
  \/ GameLoopUpdate

SpecBoot == InitBoot /\ [][NextBoot]_vars

(***************************************************************************)
(* Properties                                                              *)
(***************************************************************************)
\* the Entity the loop updates
ActivePlayer == heap[level.player]

\* the next update call is a move tick
TickDue == FCmp(FAdd(acc, step), FDivInt(1, GAME_SPEED)) >= 0

\* the step is a call of the loop's update callback
Updated == acc' # acc

\* the unit vector of a direction request
Dir(d) ==
  CASE d = DIRECTION_UP -> [x |-> 0, y |-> -1]
    [] d = DIRECTION_DOWN -> [x |-> 0, y |-> 1]
    [] d = DIRECTION_LEFT -> [x |-> -1, y |-> 0]
    [] d = DIRECTION_RIGHT -> [x |-> 1, y |-> 0]
    [] OTHER -> [x |-> 0, y |-> 0]

\* the neighbours of e's cell that lie one cell from it in direction d
Target(e, d) ==
  LET c == CellOf(e)
  IN  IF c.i \notin DOMAIN e.level.graph THEN {}
      ELSE {n \in e.level.graph[c.i].neighbours :
              /\ e.level.graph[n].x = c.x + Dir(d).x
              /\ e.level.graph[n].y = c.y + Dir(d).y}

\* the nodes reachable from the nodes of S along edges
RECURSIVE Grow(_, _)
Grow(graph, S) ==
  LET T == S \cup UNION {graph[i].neighbours : i \in S}
  IN  IF T = S THEN S ELSE Grow(graph, T)

\* the nodes of level l reachable from its spawn cell
ComponentOf(l) == Grow(l.graph, {l.meta.spawn} \cap DOMAIN l.graph)
Component == ComponentOf(level)

\* the index of the cell an Entity stands in
Cell(e) == CellOf(e).i

Joined(graph, a, b) == a \in DOMAIN graph /\ b \in graph[a].neighbours

\* the index of the cell of a pixel position
CellAt(pos) == CellOf([object |-> [x |-> pos.x, y |-> pos.y, width |-> tileSize]]).i

\* C1: under direction requests and updates, whenever the player is at rest
\* (every committed move is complete) its cell is reachable from the spawn cell
\* along graph edges, and the move it completed last took it between two cells
\* joined by an edge
C1 ==
  (started /\ ~Moving(ActivePlayer)) =>
    /\ Cell(ActivePlayer) \in Component
    /\ move.n > 0 =>
         Joined(level.graph, CellAt(move.from), Cell(ActivePlayer))

\* a move has been completed into a cell other than the spawn, in a level where
\* some cell is not reachable from the spawn
C1_Witness ==
  /\ started
  /\ ~Moving(ActivePlayer)
  /\ move.n > 0
  /\ Cell(ActivePlayer) # level.meta.spawn
  /\ Component # DOMAIN level.graph

\* C2: after any sequence of level loads, direction requests and updates, the
\* cell of the active player is the index of a node of the level's graph
C2_Original == started => Cell(ActivePlayer) \in DOMAIN level.graph

\* C3: at a move tick the delta is non-zero after validation only if the node
\* of the current cell has a neighbour at (cellX + dx, cellY + dy), and then it
\* points in the requested direction; otherwise both axis deltas are 0
C3_Tick ==
  (started /\ Updated /\ TickDue) =>
    LET e == ActivePlayer
        valid == e.direction # DIRECTION_NONE /\ Target(e, e.direction) # {}
    IN  /\ Moving(ActivePlayer') <=> valid
        /\ valid => /\ Sign(ActivePlayer'.x) = Dir(e.direction).x
                    /\ Sign(ActivePlayer'.y) = Dir(e.direction).y
C3 == [][C3_Tick]_vars

\* a move downwards was committed by the last update
C3_Witness ==
  /\ started
  /\ move.n = 1
  /\ move.dy = 1
  /\ Moving(ActivePlayer)

\* bit is set in mask
Has(mask, bit) == mask % (2 * bit) >= bit

Mask(i) == ToInt32(COLLISIONS(level.graph[i].id))

\* C4: a cell and the cell above it are joined iff bit 0b1000 of the cell's mask
\* and bit 0b0010 of the upper cell's mask are clear; a cell and the cell to
\* its left are joined iff bit 0b0001 of the cell's mask and bit 0b0100 of the
\* left cell's mask are clear
C4 ==
  started =>
    \A i \in DOMAIN level.graph :
      /\ i - width \in DOMAIN level.graph =>
           (Joined(level.graph, i, i - width)
              <=> ~Has(Mask(i), 8) /\ ~Has(Mask(i - width), 2))
      /\ (i % width # 0) =>
           (Joined(level.graph, i, i - 1)
              <=> ~Has(Mask(i), 1) /\ ~Has(Mask(i - 1), 4))

\* a tile 59 lies under a ground tile and is not joined to it, while it is
\* joined to another cell
C4_Witness ==
  /\ started
  /\ \E i \in DOMAIN level.graph :
       /\ level.graph[i].id = 59
       /\ i - width \in DOMAIN level.graph
       /\ level.graph[i - width].id = TILE_GROUND
       /\ ~Joined(level.graph, i, i - width)
       /\ level.graph[i].neighbours # {}

\* C5: in the graph of the loaded level, b is a neighbour of a iff a is a
\* neighbour of b
C5 ==
  started =>
    \A a \in DOMAIN level.graph : \A b \in DOMAIN level.graph :
      Joined(level.graph, a, b) <=> Joined(level.graph, b, a)

\* the graph has an edge, and two cells next to each other without one
C5_Witness ==
  /\ started
  /\ \E a \in DOMAIN level.graph :
       /\ a + 1 \in level.graph[a].neighbours
       /\ \E b \in DOMAIN level.graph :
            /\ b % width # 0
            /\ b - 1 \notin level.graph[b].neighbours

\* cells a and b lie at Manhattan distance 1 on the grid
Adjacent(a, b) ==
  LET dx == (a % width) - (b % width)
      dy == (a \div width) - (b \div width)
  IN  dx * dx + dy * dy = 1

\* the number of tests the builder makes of the pair of cells a and b
TestCount(a, b) ==
  Cardinality({t \in Cells \X {1, 2} :
                 /\ t[2] <= Len(Tests(t[1]))
                 /\ {Tests(t[1])[t[2]].node, Tests(t[1])[t[2]].node2} = {a, b}})

\* every test is of two cells of the grid
TestsInGrid ==
  \A i \in Cells : \A k \in 1..Len(Tests(i)) :
    Tests(i)[k].node \in Cells /\ Tests(i)[k].node2 \in Cells

\* the tests are of the pairs of 4-adjacent cells, once each
TestsCoverAdjacency ==
  /\ TestsInGrid
  /\ \A a \in Cells : \A b \in Cells :
       TestCount(a, b) = IF Adjacent(a, b) THEN 1 ELSE 0

\* an interior cell whose tile and four adjacent tiles have mask 0
OpenInterior(i) ==
  /\ {i - width, i - 1, i + 1, i + width} \subseteq DOMAIN level.graph
  /\ i % width # 0
  /\ (i + 1) % width # 0
  /\ \A j \in {i, i - width, i - 1, i + 1, i + width} : Mask(j) = 0

\* C6: the builder tests each pair of 4-adjacent cells once and no other pair;
\* every edge joins two cells at Manhattan distance 1, so no node is its own
\* neighbour and no edge wraps around a row end or above row 0; an interior
\* cell among open tiles has exactly the neighbours i-1, i+1, i-width, i+width
C6 ==
  /\ TestsCoverAdjacency
  /\ started =>
       /\ \A a \in DOMAIN level.graph : \A b \in level.graph[a].neighbours :
            b \in DOMAIN level.graph /\ Adjacent(a, b)
       /\ \A i \in DOMAIN level.graph :
            OpenInterior(i) =>
              level.graph[i].neighbours = {i - 1, i + 1, i - width, i + width}

\* an interior cell among open tiles has four neighbours, and the open last
\* cell of a row is not joined to the open first cell of the next row
C6_Witness ==
  /\ started
  /\ \E i \in DOMAIN level.graph :
       OpenInterior(i) /\ Cardinality(level.graph[i].neighbours) = 4
  /\ \E c \in DOMAIN level.graph :
       /\ (c + 1) % width = 0
       /\ c + 1 \in DOMAIN level.graph
       /\ Mask(c) = 0
       /\ Mask(c + 1) = 0
       /\ ~Joined(level.graph, c, c + 1)

\* C7: an update of a player at rest that is not a move tick with a request
\* towards a neighbour leaves the pixel position as it was, leaves both deltas
\* 0 and raises no error; so a request towards a cell that is not a neighbour
\* changes nothing at its tick or at any later update
C7_Step ==
  (/\ started
   /\ Updated
   /\ ~Moving(ActivePlayer)
   /\ ~(/\ TickDue
        /\ ActivePlayer.direction # DIRECTION_NONE
        /\ Target(ActivePlayer, ActivePlayer.direction) # {}))
  => /\ ActivePlayer'.object = ActivePlayer.object
     /\ ~Moving(ActivePlayer')
     /\ ActivePlayer'.direction = IF TickDue THEN DIRECTION_NONE
                                             ELSE ActivePlayer.direction
     /\ errors' = errors
C7 == [][C7_Step]_vars

\* the move tick that just ran cancelled a request and the player is at rest
C7_Witness ==
  /\ started
  /\ move.refused
  /\ acc = Zero
  /\ ~Moving(ActivePlayer)
  /\ errors = 0

\* C8: a committed move is over before the next move tick (no delta is
\* non-zero when a tick is due), and once over the position is one tile from
\* where the move began, in its direction, and unchanged on the other axis
C8 ==
  started =>
    /\ TickDue => ~Moving(ActivePlayer)
    /\ (move.n > 0 /\ ~Moving(ActivePlayer)) =>
         /\ ActivePlayer.object.x = FAdd(move.from.x, FromInt(tileSize * move.dx))
         /\ ActivePlayer.object.y = FAdd(move.from.y, FromInt(tileSize * move.dy))
         /\ {move.dx, move.dy} \in {{0, 1}, {0, -1}}

\* a move to the right is over and the next update is a move tick
C8_Witness ==
  /\ started
  /\ move.n > 0
  /\ move.dx = 1
  /\ ~Moving(ActivePlayer)
  /\ TickDue

\* f is an integer multiple of the tile size
OnGrid(f) == Trunc(f) % tileSize = 0 /\ f = FromInt(Trunc(f))

\* C9: whenever both axis deltas are 0, the pixel position is an integer
\* multiple of the tile size on both axes
C9 ==
  started =>
    (~Moving(ActivePlayer) =>
       OnGrid(ActivePlayer.object.x) /\ OnGrid(ActivePlayer.object.y))

\* a move upwards is over: the position was snapped
C9_Witness ==
  /\ started
  /\ move.n > 0
  /\ move.dy = -1
  /\ ~Moving(ActivePlayer)
  /\ OnGrid(ActivePlayer.object.y)

\* k * Rate >= |v| in exact arithmetic
Within(v, k) ==
  IF IsZero(v) THEN TRUE
  ELSE LET e == IF Rate.e < v.e THEN Rate.e ELSE v.e
       IN  BigCmp(BigShl(BigMulSmall(Rate.m, k), Rate.e - e),
                  BigShl(v.m, v.e - e)) >= 0

\* ceil(|v| / (dt * GAME_SPEED)) in exact arithmetic, for the dt of the loop
SettleBound(v) ==
  CHOOSE k \in 0..fps : Within(v, k) /\ (k = 0 \/ ~Within(v, k - 1))

Abs(f) == IF IsZero(f) THEN f ELSE [f EXCEPT !.s = 1]

\* one update of one axis delta: towards 0 by the rounded difference with
\* dt * GAME_SPEED, clamped at 0, never past it, and 0 stays 0
Settles(v, w) ==
  /\ Abs(w) = FMax(FSub(Abs(v), Rate), Zero)
  /\ Sign(w) \in {0, Sign(v)}
  /\ ~IsZero(v) => FCmp(Abs(w), Abs(v)) < 0

\* C10 as stated: the delta is 0 after ceil(|delta| / (dt * GAME_SPEED)) updates
C10_Original ==
  started =>
    (move.n >= SettleBound(move.v0) => ~Moving(ActivePlayer))

\* C10: with dt = 1/60 and no new request, each update moves an axis delta
\* towards 0 by dt * GAME_SPEED (rounded to binary64), clamped at 0 and never
\* changing its sign, a delta of 0 stays 0, and the delta is 0 after at most
\* ceil(|delta| / (dt * GAME_SPEED)) + 1 updates
C10_Step ==
  started =>
    LET e == heap[level.player]
        e2 == heap'[level.player]
    IN  /\ Settles(e.x, e2.x)
        /\ Settles(e.y, e2.y)
        /\ move.n >= SettleBound(move.v0) => ~Moving(e2)
C10 == [][C10_Step]_vars

\* a delta that began at 4 * dt * GAME_SPEED reached 0 at its fifth update
C10_Witness ==
  /\ started
  /\ ~Moving(ActivePlayer)
  /\ move.v0 = FMul(FromInt(4), Rate)
  /\ move.n = SettleBound(move.v0) + 1

\* C11: a move tick consumes the pending direction.  After the update call of
\* a move tick the direction of the updated Entity is DIRECTION_NONE, whether
\* the move was committed or cancelled; and a move is committed only by a
\* call that found a request pending and leaves none, so that one request
\* commits at most one move and no later tick replays it.
C11_Step ==
  started =>
    LET e == heap[level.player]
        e2 == heap'[level.player]
    IN  /\ (Updated /\ TickDue) => e2.direction = DIRECTION_NONE
        /\ (~Moving(e) /\ Moving(e2)) =>
             e.direction # DIRECTION_NONE /\ e2.direction = DIRECTION_NONE

C11 == [][C11_Step]_vars

\* a tick has committed a move to the left and left no request behind
C11_Witness ==
  /\ started
  /\ move.n = 1
  /\ move.dx = -1
  /\ Moving(ActivePlayer)
  /\ ActivePlayer.direction = DIRECTION_NONE

\* C12: of the requests made between two move ticks only the last counts.
\* The direction pending on the player is always the one requested last; a
\* request changes neither the position nor the axis deltas; and the delta a
\* move tick samples is the one of the last request: the tick commits a move
\* iff that direction leads to a neighbour, and then along that direction.
C12_Step ==
  started =>
    LET e == heap[player]
        e2 == heap'[player]
        valid == /\ keys.last # DIRECTION_NONE
                 /\ Target(e, keys.last) # {}
    IN  /\ e.direction = keys.last
        /\ ~Updated => (e2.object = e.object /\ e2.x = e.x /\ e2.y = e.y)
        /\ (Updated /\ TickDue) =>
             /\ Moving(e2) <=> valid
             /\ valid => /\ Sign(e2.x) = Dir(keys.last).x
                          /\ Sign(e2.y) = Dir(keys.last).y

C12 == [][C12_Step]_vars

\* a tick has committed a move whose request had replaced another one
C12_Witness ==
  /\ started
  /\ keys.replaced
  /\ keys.last = DIRECTION_NONE
  /\ move.n = 1
  /\ Moving(heap[player])

\* C13: a direction key sets the pending direction of the player of the active
\* level.  Whenever a key handler changes the request held by the Entity it
\* writes to, the Entity the loop updates holds that request.
C13_Press ==
  (started /\ ~Updated /\ heap'[player].direction # heap[player].direction) =>
    heap'[level'.player].direction = heap'[player].direction

C13_Original == [][C13_Press]_vars

\* C14: a level swap replaces the level in one step, on completion.  No step
\* that leaves a load in flight changes the active level, an Entity or the
\* map the active level draws; and the level changes only in the step that
\* ends a load, to the level that load built: its graph is the graph of the
\* normalized map, its player is the Entity the load created.
C14_Step ==
  started =>
    /\ loads' # << >> =>
         /\ level' = level
         /\ heap' = heap
         /\ MAPS'[level.engine] = MAPS[level.engine]
    /\ level' # level =>
         /\ loads # << >>
         /\ Head(loads).built
         /\ loads' = Tail(loads)
         /\ level' = [graph |-> BuildGraph(MAPS[Head(loads).n]),
                      player |-> later,
                      meta |-> Head(loads).l.meta,
                      engine |-> Head(loads).n]
         /\ heap'[later] = Head(loads).l.player
         /\ heap'[later].level.graph = level'.graph

C14 == [][C14_Step]_vars

\* a load of another level is built and not assigned yet: the old level is
\* still the active one
C14_Witness ==
  /\ started
  /\ loads # << >>
  /\ Head(loads).built
  /\ Head(loads).n # level.engine
  /\ Head(loads).l.graph # level.graph

\* C15 as stated: loads race, and once two loads of different levels have been
\* requested and none is in flight, the active level is the one requested
\* first.
C15_Original ==
  (started /\ loads = << >> /\ asked[1] # NoIndex /\ asked[1] # asked[2]) =>
    level.engine = asked[1]

\* C15, amended: loads are not cancelled and do not overlap.  At most one
\* load is in flight, it is the one requested last, and when none is in
\* flight the active level is the one requested last.
C15 ==
  started =>
    /\ Len(loads) <= 1
    /\ loads # << >> => Head(loads).n = asked[2]
    /\ (loads = << >> /\ asked[2] # NoIndex) => level.engine = asked[2]

\* two loads of different levels were requested and both are done
C15_Witness ==
  /\ started
  /\ loads = << >>
  /\ asked[1] # NoIndex
  /\ asked[1] # asked[2]
  /\ level.engine = asked[2]

\* the raw data of level 0: the data of a level that was never loaded
Raw == MAPS[NumLevels - 1]

\* the grid the latest normalization pass of level 0 was given: the raw data
\* at start-up, the normalized data in a load by the level key
Given == IF level.player = player THEN Raw ELSE MAPS[0]

Least(S) == CHOOSE a \in S : \A b \in S : a <= b
Greatest(S) == CHOOSE a \in S : \A b \in S : a >= b

RECURSIVE Ascending(_)
Ascending(S) == IF S = {} THEN << >> ELSE <<Least(S)>> \o Ascending(S \ {Least(S)})

\* the indices at which data holds id
Holding(data, id) == {i \in DOMAIN data : data[i] = id}
Indices(data, id) == Ascending(Holding(data, id))
Last(data, id) == IF Holding(data, id) = {} THEN 0 - 1 ELSE Greatest(Holding(data, id))

SpawnOrEnemy == {TILE_SPAWN, 10, 11, 12, 23, 24}

\* C16: spawn and enemy markers are normalized.  Once level 0 is loaded no
\* cell of its grid holds 5, 10, 11, 12, 23 or 24 and every cell that held one
\* holds the ground id 16; the five enemy lists of meta are the ascending
\* lists of the indices at which the grid given to the pass held 11, 12, 10,
\* 24 and 23; and meta.spawn is an index at which it held the spawn tile (the
\* only one, if one cell holds it).
C16 ==
  started =>
    /\ \A i \in DOMAIN Raw :
         /\ MAPS[0][i] \notin SpawnOrEnemy
         /\ Raw[i] \in SpawnOrEnemy => MAPS[0][i] = TILE_GROUND
    /\ level.meta.skeletons = Indices(Given, 11)
    /\ level.meta.zombies = Indices(Given, 12)
    /\ level.meta.cultists = Indices(Given, 10)
    /\ level.meta.ghosts = Indices(Given, 24)
    /\ level.meta.slimes = Indices(Given, 23)
    /\ level.meta.spawn = Last(Given, TILE_SPAWN)

\* the first pass has found the spawn and two skeletons
C16_Witness ==
  /\ started
  /\ level.player = player
  /\ Len(level.meta.skeletons) = 2
  /\ level.meta.spawn > level.meta.skeletons[1]
  /\ level.meta.spawn < level.meta.skeletons[2]
  /\ MAPS[0] # Raw

\* C17: meta holds one index per singular marker and the whole list of
\* chests.  For spawn (5), key (81), door (55) and stairs (48) the field is -1
\* when the grid given to the pass holds the id nowhere, and otherwise the
\* index of a cell that holds it (the last such cell); meta.chests lists every
\* index that holds 52, in ascending order.
C17 ==
  started =>
    /\ \A f \in {<<level.meta.spawn, TILE_SPAWN>>, <<level.meta.key, 81>>,
                  <<level.meta.door, 55>>, <<level.meta.stairs, 48>>} :
         /\ f[1] = 0 - 1 <=> Holding(Given, f[2]) = {}
         /\ f[1] # 0 - 1 => f[1] \in Holding(Given, f[2])
         /\ f[1] = Last(Given, f[2])
    /\ level.meta.chests = Indices(Given, 52)

\* a grid with a key, two chests and no door has been loaded
C17_Witness ==
  /\ started
  /\ level.player = player
  /\ level.meta.key # 0 - 1
  /\ level.meta.door = 0 - 1
  /\ Len(level.meta.chests) = 2

\* the cell i of the raw grid is recorded in meta and keeps its id
Recorded(i) ==
  /\ Raw[i] \in {55, 81, 48, 52} => MAPS[0][i] = Raw[i]
  /\ Raw[i] = 55 => level.meta.door >= i
  /\ Raw[i] = 81 => level.meta.key >= i
  /\ Raw[i] = 48 => level.meta.stairs >= i
  /\ Raw[i] = 52 => \E k \in DOMAIN level.meta.chests : level.meta.chests[k] = i

\* C18 as stated: the grid keeps its length, door, key, stairs and chest
\* tiles are recorded and keep their id, and every cell whose id is none of 5,
\* 10, 11, 12, 23, 24 keeps its id.
C18_Original ==
  started =>
    /\ DOMAIN MAPS[0] = DOMAIN Raw
    /\ \A i \in DOMAIN Raw :
         /\ Recorded(i)
         /\ Raw[i] \notin SpawnOrEnemy => MAPS[0][i] = Raw[i]

\* C18, amended: the same, for every cell whose id is none of 5, 10, 11, 12,
\* 20, 23, 24: the dog marker 20 is recorded and replaced by ground as well.
C18 ==
  started =>
    /\ DOMAIN MAPS[0] = DOMAIN Raw
    /\ \A i \in DOMAIN Raw :
         /\ Recorded(i)
         /\ Raw[i] \notin SpawnOrEnemy \cup {20} => MAPS[0][i] = Raw[i]
         /\ Raw[i] = 20 => MAPS[0][i] = TILE_GROUND
    /\ level.meta.dog = Last(Given, 20)

\* a grid with a dog, a key and a wall has been loaded
C18_Witness ==
  /\ started
  /\ \E i, j, k \in DOMAIN Raw :
       /\ Raw[i] = 20 /\ MAPS[0][i] = TILE_GROUND
       /\ Raw[j] = 81 /\ MAPS[0][j] = 81
       /\ Raw[k] = 28 /\ MAPS[0][k] = 28

\* the step is a pass over the normalized grid of level 0: a load by the key
LoadedAgain == started /\ level' # level

\* C19 as stated: a pass over a normalized grid returns the grid unchanged
\* and records nothing in meta.
C19_Again == LoadedAgain => (MAPS' = MAPS /\ level'.meta = NewMeta)

C19_Original == [][C19_Again]_vars

\* C19, amended: a pass over a normalized grid returns the grid unchanged and
\* finds no spawn, enemy or dog marker; the key, door, stairs and chests, which
\* the pass leaves in the grid, are recorded again as before.
C19_Step ==
  LoadedAgain =>
    /\ MAPS' = MAPS
    /\ level'.graph = level.graph
    /\ level'.meta = [NewMeta EXCEPT !.key = level.meta.key,
                                     !.door = level.meta.door,
                                     !.stairs = level.meta.stairs,
                                     !.chests = level.meta.chests]

C19 == [][C19_Step]_vars

\* level 0, whose raw grid held markers of both kinds, has been loaded again
C19_Witness ==
  /\ started
  /\ level.player = later
  /\ level.meta.key # 0 - 1
  /\ level.meta.spawn = 0 - 1
  /\ Holding(Raw, TILE_SPAWN) # {}
  /\ Holding(Raw, 12) # {}

\* the ids that have an entry in COLLISIONS
Table == {43, 45, 46, 59, 18, 55, 15, 2, 30, 31, 57, 4, 32, 58, 28}

\* the tile ids looked up
MaxTile == 99

\* C20: an id without an entry in the table is fully open.  Every entry of
\* the table is a mask of 0..15; the lookup of any other id yields undefined,
\* every bit test of which gives 0, as for the mask 0; and two adjacent cells
\* whose ids both have no entry are joined by an edge.
C20 ==
  /\ \A id \in Table : COLLISIONS(id) \in 0..15
  /\ \A id \in (0..MaxTile) \ Table :
       /\ COLLISIONS(id) = undefined
       /\ \A bit \in {1, 2, 4, 8} : BitAnd(COLLISIONS(id), bit) = 0
  /\ started =>
       \A i, j \in DOMAIN level.graph :
         (/\ Adjacent(i, j)
          /\ level.graph[i].id \notin Table
          /\ level.graph[j].id \notin Table) => Joined(level.graph, i, j)

\* a key tile and the ground next to it are joined, and some adjacent cells
\* are not
C20_Witness ==
  /\ started
  /\ \E i, j \in DOMAIN level.graph :
       /\ Adjacent(i, j)
       /\ level.graph[i].id = 81
       /\ level.graph[j].id = TILE_GROUND
       /\ Joined(level.graph, i, j)
  /\ \E i, j \in DOMAIN level.graph : Adjacent(i, j) /\ ~Joined(level.graph, i, j)

\* C21: the graph has one node per cell, in grid order.  Its indices are
\* 0 .. width * height - 1, and the node at i holds the normalized id of cell i
\* and the coordinates x = i mod width, y = i div width.
C21 ==
  started =>
    /\ DOMAIN level.graph = 0..(width * height - 1)
    /\ \A i \in DOMAIN level.graph :
         /\ level.graph[i].id = MAPS[level.engine][i]
         /\ level.graph[i].x = i % width
         /\ level.graph[i].y = i \div width

\* a level with a wall in the last row and a one-way tile has been built
C21_Witness ==
  /\ started
  /\ \E i, j \in DOMAIN level.graph :
       /\ level.graph[i].id = 28
       /\ level.graph[i].y = height - 1
       /\ level.graph[i].x = width - 1
       /\ level.graph[j].id = 59
       /\ level.graph[j].x # level.graph[j].y

\* C30: an idle entity moves only at a move tick with a valid request.  In an
\* update call that finds both axis deltas 0 the position changes only if the
\* call is a move tick and the pending direction leads to a graph neighbour;
\* a call that is no move tick, whatever is pending, and a move tick with
\* nothing pending leave the position and the deltas as they are.
C30_Step ==
  (started /\ Updated /\ ~Moving(ActivePlayer)) =>
    LET e == heap[level.player]
        e2 == heap'[level.player]
    IN  /\ e2.object # e.object =>
             /\ TickDue
             /\ e.direction # DIRECTION_NONE
             /\ Target(e, e.direction) # {}
        /\ (~TickDue \/ e.direction = DIRECTION_NONE) =>
             /\ e2.object = e.object
             /\ e2.x = e.x
             /\ e2.y = e.y
        /\ ~TickDue => e2.direction = e.direction

C30 == [][C30_Step]_vars

\* an idle player has kept a pending request through update calls that were
\* no move ticks, without moving
C30_Witness ==
  /\ started
  /\ move.n = 0
  /\ acc # Zero
  /\ ~Moving(ActivePlayer)
  /\ ActivePlayer.direction = DIRECTION_DOWN
  /\ Target(ActivePlayer, DIRECTION_DOWN) # {}
  /\ CellAt(ActivePlayer.object) = level.meta.spawn

\* |v| <= 1
InUnit(v) == FCmp(v, FromInt(1)) <= 0 /\ FCmp(v, FromInt(-1)) >= 0

\* at most one of the axis deltas of e is non-zero, and both lie in [-1, 1]
OneAxis(e) == (IsZero(e.x) \/ IsZero(e.y)) /\ InUnit(e.x) /\ InUnit(e.y)

C25_Original ==
  started =>
    \E g \in LoadGrids \cup {MAPS[level.engine]} :
      levelLoaderGraph(Normalize(g).data) # BuildGraph(Normalize(g).data)

\* C25: the two graph builders use one convention.  The inline collisionMap
\* of levelLoader and COLLISIONS give every tile id the same mask, and the
\* graph levelLoader builds of the loaded level's tiles has the edges of the
\* graph loadLevel has built.
C25 ==
  /\ \A id \in 0..MaxTile : collisionMap(id) = COLLISIONS(id)
  /\ started => levelLoaderGraph(MAPS[level.engine]) = level.graph

\* the loaded level has a tile 46 that is cut off from the cell to its left
\* and joined to the cell above it, and a tile 43
C25_Witness ==
  /\ started
  /\ \E i, j \in DOMAIN level.graph :
       /\ level.graph[i].id = 46
       /\ i % width # 0
       /\ i - 1 \notin level.graph[i].neighbours
       /\ i - width \in level.graph[i].neighbours
       /\ level.graph[j].id = 43
       /\ level.graph[j].neighbours # {}

\* C28: level loading is repeatable.  No load changes the map data that later
\* loads read, and a load of level 0 after its first load returns the spawn
\* index, the marker lists and the graph edges of the first load and places
\* the player at the same pixel position.
C28_Load ==
  level' # level =>
    /\ MAPS' = MAPS
    /\ started =>
         /\ level'.meta = level.meta
         /\ level'.graph = level.graph
         /\ heap'[level'.player].object = heap[level.player].object

C28_Original == [][C28_Load]_vars

\* n * d, exact: the significand is not rounded
Times(n, d) ==
  IF n = 0 THEN Zero ELSE [s |-> d.s, m |-> BigMul(d.m, BigFromInt(n)), e |-> d.e]

\* sum holds n whole steps of 1000 / fps ms and no more
Whole(sum, n) ==
  /\ FCmp(Times(n, deltaMs), sum) <= 0
  /\ FCmp(Times(n + 1, deltaMs), sum) > 0

\* the step ends the while loop of a frame
Leaves == loop.pc = "while" /\ loop'.pc = "idle"

\* the step ends a frame by a TypeError thrown out of the update callback:
\* neither accumulator -= delta nor render follows
Aborted ==
  /\ errors' = errors + 1
  /\ NoNode(ActivePlayer)
  /\ loop'.renders = 0
  /\ loop'.accumulator = loop.accumulator

\* the frames of the fixed-step loop; counted tells how the update calls of a
\* frame relate to the accumulator, aborted how a frame may end without
\* render: every update call advances the game by the same step 1 / fps; a
\* frame whose elapsed time is at most 1000 ms goes on to the while loop with
\* accumulator + dt, makes its update calls, then calls render once and leaves
\* the accumulator in [0, 1000 / fps)
FixedStep(counted, aborted) ==
  /\ Updated =>
       /\ acc' \in {Zero, FAdd(acc, step)}
       /\ step = FDivInt(1, 60)
       /\ loop'.renders = 0
  /\ (loop'.now # loop.now /\ FCmp(loop'.dt, FromInt(1000)) <= 0) =>
       /\ loop'.pc = "while"
       /\ loop'.updates = 0
       /\ loop'.sum = FAdd(loop.accumulator, FSub(loop'.now, loop.last))
  /\ Leaves =>
       \/ aborted
       \/ /\ loop'.renders = 1
          /\ counted
          /\ UNCHANGED <<acc, heap>>
          /\ FCmp(loop'.accumulator, Zero) >= 0
          /\ FCmp(loop'.accumulator, deltaMs) < 0

\* C26 as stated: update is called once for every whole step of 1000 / fps ms
\* that the accumulator holds after accumulator += dt.
C26_Original == [][FixedStep(Whole(loop.sum, loop.updates), FALSE)]_vars

\* C26, amended: the number of update calls of a frame is within one of the
\* number of whole steps the accumulator holds after accumulator += dt: the
\* loop subtracts 1000 / fps once per call, each subtraction rounded, and
\* compares what is left.  A frame in which an update call throws ends at
\* that call, without the subtraction and without render.
C26 ==
  [][FixedStep(\/ Whole(loop.sum, loop.updates)
               \/ Whole(loop.sum, loop.updates - 1)
               \/ Whole(loop.sum, loop.updates + 1),
               Aborted)]_vars

\* a frame has been rendered after one update call more than the whole steps
\* its accumulator held
C26_Witness ==
  /\ loop.pc = "idle"
  /\ loop.renders = 1
  /\ loop.updates > 30
  /\ Whole(loop.sum, loop.updates - 1)

\* the step is the entry of a frame
Entered == loop'.now # loop.now

\* C27: a frame that finds more than 1000 ms elapsed since the frame before
\* is skipped.  It makes no update call and no render call and leaves the
\* accumulator and the game as they are; it stores its timestamp, and every
\* frame measures its elapsed time from the timestamp the frame before
\* stored, skipped or not.
C27_Frame ==
  /\ Entered =>
       /\ loop'.dt = FSub(loop'.now, loop.last)
       /\ loop'.last = loop'.now
  /\ (Entered /\ FCmp(FSub(loop'.now, loop.last), FromInt(1000)) > 0) =>
       /\ loop'.pc = "idle"
       /\ loop'.updates = 0
       /\ loop'.renders = 0
       /\ loop'.accumulator = loop.accumulator
       /\ UNCHANGED <<MAPS, level, heap, acc, errors>>
  /\ (loop.pc = "idle" /\ loop'.pc = "idle") =>
       /\ loop'.accumulator = loop.accumulator
       /\ loop'.renders = IF Entered THEN 0 ELSE loop.renders

C27 == [][C27_Frame]_vars

\* a frame has been skipped while the accumulator held a remainder
C27_Witness ==
  /\ loop.pc = "idle"
  /\ FCmp(loop.dt, FromInt(1000)) > 0
  /\ loop.last = loop.now
  /\ loop.updates = 0
  /\ loop.renders = 0
  /\ ~IsZero(loop.accumulator)

\* the delta the Entity e holds points from the cell its move began in to a
\* neighbour of that cell
Validated(e) ==
  \E n \in level.graph[CellAt(move.from)].neighbours :
    /\ level.graph[n].x = level.graph[CellAt(move.from)].x + Sign(e.x)
    /\ level.graph[n].y = level.graph[CellAt(move.from)].y + Sign(e.y)

\* the step is the render call of a frame
Rendered == loop'.renders = loop.renders + 1

\* C22: the order inside a frame.  An update call that is a move tick samples
\* the request, validates it and only then integrates: a request that is
\* valid moves the player by the full delta in that same call, a request that
\* is refused moves nothing.  Update calls are made inside the while loop of
\* a frame, before its render; render comes when no update call of the frame
\* is left, changes nothing, and sees no delta but a validated one.
C22_Step ==
  /\ Updated =>
       /\ loop.pc = "while"
       /\ loop.renders = 0
       /\ Due(loop)
  /\ (Updated /\ TickDue /\ ~NoNode(ActivePlayer) /\ ~Moving(ActivePlayer)) =>
       LET e == heap[level.player]
           e2 == heap'[level.player]
           d == Dir(e.direction)
       IN  /\ e2.direction = DIRECTION_NONE
           /\ IF e.direction # DIRECTION_NONE /\ Target(e, e.direction) # {}
              THEN /\ e2.object.x =
                        Advance(e.object.x, FromInt(d.x), step, e.object.width)
                   /\ e2.object.y =
                        Advance(e.object.y, FromInt(d.y), step, e.object.width)
                   /\ e2.x = Decay(FromInt(d.x), step)
                   /\ e2.y = Decay(FromInt(d.y), step)
              ELSE /\ e2.object = e.object
                   /\ ~Moving(e2)
  /\ Rendered =>
       /\ loop.pc = "while"
       /\ ~Due(loop)
       /\ UNCHANGED <<heap, acc, level, move>>
       /\ Moving(ActivePlayer) => Validated(ActivePlayer)

C22 == [][C22_Step]_vars

\* a frame has been rendered in which a move tick committed a move and more
\* update calls followed
C22_Witness ==
  /\ loop.pc = "idle"
  /\ loop.renders = 1
  /\ Moving(ActivePlayer)
  /\ move.n > 1
  /\ move.n < loop.updates

\* C23: a tileset that fails to load rejects the loads.  Once the promise is
\* rejected no call of loadLevel returns a level, the variable level and the
\* map data keep their values, and the program stays without its first level,
\* its key bindings and its loop.
C23_Step ==
  TILESET = "rejected" =>
    /\ UNCHANGED <<MAPS, level, heap, started, TILESET>>
    /\ level = NoLevel
    /\ \A i \in DOMAIN loads' : ~loads'[i].built
    /\ loads' # loads =>
         \/ loads' = <<Reject(Head(loads))>> \o Tail(loads)
         \/ Head(loads).rejected /\ loads' = Tail(loads)

C23 == [][C23_Step]_vars

\* the tileset has failed and the start-up task has ended in the rejection of
\* its load
C23_Witness ==
  /\ TILESET = "rejected"
  /\ loads = << >>
  /\ ~started
  /\ level = NoLevel

\* C24 as stated: loadLevel(n) with n outside the indices of MAPS raises no
\* error and completes.
C24_Original ==
  \A i \in DOMAIN loads : loads[i].n \notin DOMAIN MAPS => ~loads[i].rejected

\* C24, amended: loadLevel(n) with n outside the indices of MAPS passes no
\* check of n, and once the tileset promise is settled it throws: the call is
\* rejected, it returns no level object and changes no map data, and the
\* assignment to level that awaits it is not made.
C24_Step ==
  (loads # << >> /\ Head(loads).n \notin DOMAIN MAPS) =>
    /\ ~Head(loads).built
    /\ UNCHANGED <<MAPS, level, heap>>
    /\ loads' # loads =>
         IF Head(loads).rejected
         THEN loads' = Tail(loads)
         ELSE loads' = <<[Head(loads) EXCEPT !.rejected = TRUE]>> \o Tail(loads)

C24 == [][C24_Step]_vars

\* a load of the index one above the last has been rejected while a level is
\* active
C24_Witness ==
  /\ started
  /\ TILESET = "resolved"
  /\ loads # << >>
  /\ Head(loads).n = NumLevels
  /\ Head(loads).rejected

\* C36: meta.fire and meta.secret are never assigned.  Once level 0 is loaded,
\* on the first pass and on every later one, both are -1; a tile 20 is
\* recorded in meta.dog, the last one if there are several, and replaced by
\* the ground id, so that no cell of the grid holds 20.
C36 ==
  started =>
    /\ level.meta.fire = 0 - 1
    /\ level.meta.secret = 0 - 1
    /\ \A i \in DOMAIN MAPS[0] : MAPS[0][i] # 20
    /\ Holding(Given, 20) # {} => level.meta.dog \in Holding(Given, 20)
    /\ Holding(Given, 20) = {} => level.meta.dog = 0 - 1

\* the first pass over a grid with two tiles 20 has recorded the second
C36_Witness ==
  /\ started
  /\ level.player = player
  /\ Cardinality(Holding(Raw, 20)) = 2
  /\ level.meta.dog = Greatest(Holding(Raw, 20))
  /\ level.meta.fire = 0 - 1

\* step added to 0 k times, each sum rounded
RECURSIVE Sum(_)
Sum(k) ==
  IF k = 0 THEN Zero ELSE CHOOSE r \in {FAdd(v, step) : v \in {Sum(k - 1)}} : TRUE

\* the accumulator after each number of calls up to those of half a second
Sums == [k \in 0..(fps \div GAME_SPEED) |-> Sum(k)]

\* the update callback passes moveUpdate = true, which samples and clears the
\* request, exactly when acc + delta >= 1 / GAME_SPEED, and then sets acc to
\* 0; otherwise it keeps the sum.  A move tick is every p-th call: the call
\* is a move tick exactly when p - 1 calls have added to acc since the tick
\* before, and no move tick follows another.
Cadence(p) ==
  /\ started =>
       /\ FCmp(acc, Sums[p - 1]) <= 0
       /\ TickDue <=> acc = Sums[p - 1]
       /\ TickDue => acc # Zero
  /\ (Updated /\ ~NoNode(ActivePlayer)) =>
       LET e == heap[level.player]
           e2 == heap'[level.player]
       IN  IF FCmp(FAdd(acc, step), FDivInt(1, GAME_SPEED)) >= 0
           THEN acc' = Zero /\ e2.direction = DIRECTION_NONE
           ELSE acc' = FAdd(acc, step) /\ e2.direction = e.direction

\* C31: with dt = 1 / 60 and GAME_SPEED = 2 a move tick fires on exactly
\* every 30th update call, the call of a move tick resets the accumulator to
\* 0, and two move ticks never fire on consecutive updates.
C31_Original == [][Cadence(30)]_vars

\* what the accumulation of doubles gives: thirty additions of 1 / 60 make
\* 0.49999999999999994, below 1 / GAME_SPEED, and the 31st call is the tick
Every31st == [][Cadence(fps \div GAME_SPEED + 1)]_vars

(***************************************************************************)
(* src/js/entity.js: the Entity whose x and y are accessors                *)
(***************************************************************************)

Rest ==
  <<MAPS, level, heap, acc, started, errors, loads, move, keys, asked, loop,
    TILESET>>

\* the assignments of a behaviour
MaxCalls == 3

\* a setter that has no lock
entity_set_x_Unlocked(e, x) == [e EXCEPT !.moving = TRUE, !._x = x]

\* set x (x) { if (!this.moving) { this.moving = true; return this._x = x } }
entity_set_x(e, x) == IF ~e.moving THEN [e EXCEPT !.moving = TRUE, !._x = x] ELSE e

\* set y (y) { if (!this.moving) { this.moving = true; return this._y = y } }
entity_set_y(e, y) == IF ~e.moving THEN [e EXCEPT !.moving = TRUE, !._y = y] ELSE e

\* this.object.x += this.x * delta * (this.object.width * 2 - ERROR_CORRECTION)
Slide(pos, v, delta, w) ==
  FAdd(pos, FMul(FMul(v, delta), FSub(FromInt(w * 2), ERROR_CORRECTION)))

\* if (this.x > 0) this._x = Math.max(this.x - delta, 0)
Fall(v, delta) == IF FCmp(v, Zero) > 0 THEN FMax(FSub(v, delta), Zero) ELSE v

\* if (this.x < 0) this._x = Math.min(this.x + delta, 0)
Rise(v, delta) == IF FCmp(v, Zero) < 0 THEN FMin(FAdd(v, delta), Zero) ELSE v

\* if (this.x === 0 && this.y === 0): round the position, moving = false
Arrive(e) ==
  IF IsZero(e._x) /\ IsZero(e._y)
  THEN [e EXCEPT !.object.x = MathRound(@), !.object.y = MathRound(@),
                 !.moving = FALSE]
  ELSE e

\* update (delta, moveUpdate, acc), which reads neither moveUpdate nor acc
entity_update(e, delta) ==
  Arrive([e EXCEPT !.object.x = Slide(@, e._x, delta, e.object.width),
                   !.object.y = Slide(@, e._y, delta, e.object.width),
                   !._x = Rise(Fall(@, delta), delta),
                   !._y = Rise(Fall(@, delta), delta)])

\* the handlers of 'h' and 'l': player.x = -1, player.x = 1.  calls and asked
\* are history: the number of assignments so far and the last of them
AssignX(v) ==
  /\ entity.calls < MaxCalls
  /\ entity' = [entity_set_x(entity, FromInt(v)) EXCEPT
                  !.calls = @ + 1, !.asked = [axis |-> "x", v |-> v]]
  /\ UNCHANGED <<Rest, bfs>>

\* the handlers of 'k' and 'j': player.y = -1, player.y = 1
AssignY(v) ==
  /\ entity.calls < MaxCalls
  /\ entity' = [entity_set_y(entity, FromInt(v)) EXCEPT
                  !.calls = @ + 1, !.asked = [axis |-> "y", v |-> v]]
  /\ UNCHANGED <<Rest, bfs>>

\* level.player.update(delta, acc >= 1, acc) of the loop, delta = 1 / 60
PlayerUpdate ==
  /\ entity' = entity_update(entity, step)
  /\ UNCHANGED <<Rest, bfs>>

NextEntity ==
  \/ \E v \in {0 - 1, 1} : AssignX(v)
  \/ \E v \in {0 - 1, 1} : AssignY(v)
  \/ PlayerUpdate

\* new Entity(gameObject, level) on a sprite of one tile
InitEntity ==
  /\ MAPS = [n \in Levels |-> Open]
  /\ level = NoLevel
  /\ heap = [r \in {player, later} |-> NoObject]
  /\ acc = Zero
  /\ started = FALSE
  /\ errors = 0
  /\ loads = << >>
  /\ move = NoMove
  /\ keys = NoKeys
  /\ asked = NoAsked
  /\ loop = NoLoop
  /\ TILESET = "resolved"
  /\ bfs = NoSearch
  /\ entity = [_x |-> Zero, _y |-> Zero, moving |-> FALSE, calls |-> 0,
               asked |-> [axis |-> "", v |-> 0],
               object |-> [x |-> Zero, y |-> Zero, width |-> tileSize]]

SpecEntity == InitEntity /\ [][NextEntity]_vars

\* C32: an assignment to player.x or player.y takes effect if and only if
\* moving is false at that moment, and it then sets moving to true; moving
\* stays true until the update call in which both deltas are 0; while a move
\* is in progress every further assignment on either axis is ignored, and the
\* two deltas are never both non-zero.
C32_Step ==
  LET e == entity
      e2 == entity'
      called == e2.calls # e.calls
      v == FromInt(e2.asked.v)
  IN  /\ called =>
           /\ e2.moving
           /\ e2.object = e.object
           /\ IF e.moving
              THEN e2._x = e._x /\ e2._y = e._y
              ELSE IF e2.asked.axis = "x"
              THEN e2._x = v /\ e2._y = e._y
              ELSE e2._y = v /\ e2._x = e._x
      /\ (e.moving /\ ~e2.moving) => ~called /\ IsZero(e2._x) /\ IsZero(e2._y)
      /\ (e.moving /\ ~called) => (e2.moving <=> ~(IsZero(e2._x) /\ IsZero(e2._y)))
      /\ ~e2.moving => IsZero(e2._x) /\ IsZero(e2._y)
      /\ IsZero(e2._x) \/ IsZero(e2._y)

C32 == [][C32_Step]_vars

\* a move along x is under way and the last assignment, to y, was ignored
C32_Witness ==
  /\ entity.moving
  /\ entity.calls > 1
  /\ entity.asked.axis = "y"
  /\ IsZero(entity._y)
  /\ ~IsZero(entity._x)
  /\ entity._x # FromInt(1)

(***************************************************************************)
(* utils.js: bfs                                                           *)
(***************************************************************************)

\* the nodes of a graph
NumNodes == 4
Nodes == 1 .. NumNodes

\* the two-node sets that can be edges: neighbours are mutual and no node is
\* its own neighbour, as in the graphs main builds
Pairs == {{a, b} : a, b \in Nodes} \ {{a} : a \in Nodes}

\* the nodes by rising and by falling number
Up == [i \in Nodes |-> i]
Down == [i \in Nodes |-> NumNodes + 1 - i]

\* the sets of nodes whose neighbours are in falling order: at most one node
Turned == {{}} \cup {{n} : n \in Nodes}

\* node.neighbours of every node: the nodes joined to it by an edge of E, in
\* falling order for the nodes of R and in rising order for the others
Neighbours(E, R) ==
  [n \in Nodes |->
     SelectSeq(IF n \in R THEN Down ELSE Up, LAMBDA m : {n, m} \in E /\ m # n)]

\* the elements of a list
Listed(list) == {list[i] : i \in DOMAIN list}

\* a dequeue from the wrong end
Shift_Pop(queue) ==
  [node |-> queue[Len(queue)], queue |-> SubSeq(queue, 1, Len(queue) - 1)]

\* const node = queue.shift()
Shift(queue) == [node |-> Head(queue), queue |-> Tail(queue)]

\* the neighbours that pass if (!visited.has(neighbour)), in order
Unvisited(list, visited) == SelectSeq(list, LAMBDA n : n \notin visited)

\* prev.set with its arguments exchanged
Discover_Swapped(prev, node, found) ==
  IF found = << >> THEN prev ELSE [prev EXCEPT ![node] = found[Len(found)]]

\* prev.set(neighbour, node) for every neighbour found
Discover(prev, node, found) ==
  [n \in DOMAIN prev |-> IF n \in Listed(found) THEN node ELSE prev[n]]

\* history: the node that pushed n first
First(first, node, found) ==
  [n \in DOMAIN first |->
     IF n \in Listed(found) /\ first[n] = undefined THEN node ELSE first[n]]

\* a call of enter or leave with its arguments node and prev.get(node)
Callback(cb, node, prev) == [cb |-> cb, node |-> node, prev |-> prev[node]]

\* one pass of the while loop over a node that is not visited: visited.add,
\* enter, the for loop over node.neighbours, leave
Pass(b, node, rest, found) ==
  [b EXCEPT !.queue = rest \o found,
            !.visited = @ \cup {node},
            !.prev = Discover(@, node, found),
            !.first = First(@, node, found),
            !.calls = @ \o <<Callback("enter", node, b.prev),
                             Callback("leave", node, Discover(b.prev, node, found))>>]

Visit(b, s) ==
  Pass(b, s.node, s.queue, Unvisited(b.graph[s.node], b.visited \cup {s.node}))

\* while (queue.length) over a node that is not in visited
bfsVisit ==
  /\ bfs.pc = "while"
  /\ bfs.queue # << >>
  /\ Shift(bfs.queue).node \notin bfs.visited
  /\ bfs' = Visit(bfs, Shift(bfs.queue))
  /\ UNCHANGED <<Rest, entity>>

\* if (visited.has(node)) continue
bfsContinue ==
  /\ bfs.pc = "while"
  /\ bfs.queue # << >>
  /\ Shift(bfs.queue).node \in bfs.visited
  /\ bfs' = [bfs EXCEPT !.queue = Shift(bfs.queue).queue]
  /\ UNCHANGED <<Rest, entity>>

\* queue.length is 0: bfs returns
bfsReturn ==
  /\ bfs.pc = "while"
  /\ bfs.queue = << >>
  /\ bfs' = [bfs EXCEPT !.pc = "done"]
  /\ UNCHANGED <<Rest, entity>>

NextBfs ==
  \/ bfsVisit
  \/ bfsContinue
  \/ bfsReturn

\* bfs(start, { enter, leave }) has been entered: queue = [start], visited
\* and prev are empty
InitBfs ==
  /\ MAPS = [n \in Levels |-> Open]
  /\ level = NoLevel
  /\ heap = [r \in {player, later} |-> NoObject]
  /\ acc = Zero
  /\ started = FALSE
  /\ errors = 0
  /\ loads = << >>
  /\ move = NoMove
  /\ keys = NoKeys
  /\ asked = NoAsked
  /\ loop = NoLoop
  /\ TILESET = "resolved"
  /\ entity = NoEntity
  /\ \E E \in SUBSET Pairs, R \in Turned, start \in Nodes :
       bfs = [graph |-> Neighbours(E, R), start |-> start, queue |-> <<start>>,
              visited |-> {}, prev |-> [n \in Nodes |-> undefined],
              first |-> [n \in Nodes |-> undefined], calls |-> << >>,
              pc |-> "while"]

\* the while loop runs on as long as it can
SpecBfs == InitBfs /\ [][NextBfs]_vars /\ WF_vars(NextBfs)

\* the nodes within k edges of start
RECURSIVE Ball(_)
Ball(k) ==
  IF k = 0 THEN {bfs.start}
  ELSE LET B == Ball(k - 1)
       IN  B \cup UNION {Listed(bfs.graph[n]) : n \in B}

\* the nodes reachable from start, and the distance of one of them
Reachable == Ball(NumNodes)
Distance(n) == CHOOSE k \in 0 .. NumNodes : n \in Ball(k) /\ \A j \in 0 .. (k - 1) : n \notin Ball(j)

\* the positions in calls of the calls of a callback for a node
CallsOf(cb, n) == {i \in DOMAIN bfs.calls : bfs.calls[i].cb = cb /\ bfs.calls[i].node = n}

Returned == bfs.pc = "done"

\* enter and leave are called at most once for a node and never for an
\* unreachable one, enter before leave, the nodes entered in order of
\* non-decreasing distance; at the return they have been called for every
\* reachable node
Traversal ==
  /\ \A n \in Nodes :
       /\ Cardinality(CallsOf("enter", n)) <= 1
       /\ Cardinality(CallsOf("leave", n)) <= 1
       /\ n \notin Reachable => CallsOf("enter", n) \cup CallsOf("leave", n) = {}
       /\ \A i \in CallsOf("leave", n) : \E j \in CallsOf("enter", n) : j < i
       /\ (Returned /\ n \in Reachable) =>
            CallsOf("enter", n) # {} /\ CallsOf("leave", n) # {}
  /\ \A i, j \in DOMAIN bfs.calls :
       (i < j /\ bfs.calls[i].cb = "enter" /\ bfs.calls[j].cb = "enter") =>
          Distance(bfs.calls[i].node) <= Distance(bfs.calls[j].node)

\* C33: bfs terminates on every finite graph and, with callbacks that leave
\* the visited set alone, calls enter exactly once and leave exactly once for
\* every node reachable from start and never for an unreachable node; enter
\* comes before leave for each node, and the nodes are entered in order of
\* non-decreasing distance from start.
C33 == <>Returned /\ []Traversal

\* bfs has returned from a graph with a node two edges from start, having
\* skipped nothing it should enter, and with a node it could not reach
C33_Witness ==
  /\ Returned
  /\ \E n \in Reachable : Distance(n) = 2
  /\ Len(bfs.calls) = 2 * Cardinality(Reachable)

\* the (prev, node) pairs collected from leave, as main collects its mst
Mst == {<<bfs.calls[i].prev, bfs.calls[i].node>> :
          i \in {j \in DOMAIN bfs.calls :
                   bfs.calls[j].cb = "leave" /\ bfs.calls[j].prev # undefined}}

\* the nodes joined to start by the pairs of a set, in at most k pairs
RECURSIVE Spanned(_, _)
Spanned(tree, k) ==
  IF k = 0 THEN {bfs.start}
  ELSE LET S == Spanned(tree, k - 1)
       IN  S \cup {p[2] : p \in {t \in tree : t[1] \in S}}

\* C34: the predecessor passed to enter and leave is undefined for the start
\* node and, for every other visited node, a neighbour of that node that was
\* entered earlier; the (prev, node) pairs collected from leave form a
\* spanning tree of the component reachable from start, with exactly one pair
\* per non-start node.
C34 ==
  /\ \A i \in DOMAIN bfs.calls :
       IF bfs.calls[i].node = bfs.start
       THEN bfs.calls[i].prev = undefined
       ELSE /\ bfs.calls[i].prev \in Listed(bfs.graph[bfs.calls[i].node])
            /\ \E j \in CallsOf("enter", bfs.calls[i].prev) : j < i
  /\ Returned =>
       /\ \A n \in Reachable \ {bfs.start} :
            Cardinality({p \in Mst : p[2] = n}) = 1
       /\ \A p \in Mst : p[2] \in Reachable \ {bfs.start}
       /\ Spanned(Mst, NumNodes) = Reachable

\* bfs has returned from a connected graph in which every node has two
\* neighbours or more, so that some edge is left out of the pairs
C34_Witness ==
  /\ Returned
  /\ \A n \in Nodes : Cardinality(Listed(bfs.graph[n])) >= 2
  /\ Cardinality(Mst) = NumNodes - 1

\* C35: the predecessor that bfs reports for a node is the node from which
\* it was first discovered, its breadth-first-tree parent, which lies exactly
\* one edge closer to start than the node.
C35_Original ==
  \A i \in DOMAIN bfs.calls :
    bfs.calls[i].node # bfs.start =>
      /\ bfs.calls[i].prev = bfs.first[bfs.calls[i].node]
      /\ Distance(bfs.calls[i].prev) + 1 = Distance(bfs.calls[i].node)

====
